---- MODULE Spec2Model ----
(***************************************************************************)
(* A model of the machine-controller reconciliation stack:                 *)
(*   - the MachineDeployment rolling update (rolling.go, sync.go),         *)
(*   - the MachineSet delete policies (delete_policy.go),                  *)
(*   - the provider Create / Cleanup operations,                           *)
(*   - the node CSR approver.                                              *)
(* Each subsystem has its own variables, initial predicate and next-state  *)
(* relation; the variables of the other subsystems stay unchanged.         *)
(***************************************************************************)
EXTENDS Integers, Sequences, FiniteSets, TLC

(***************************************************************************)
(* Bounds of the model                                                     *)
(***************************************************************************)
MaxReplicas == 2            \* deployment.spec.replicas ranges over 1..MaxReplicas
NumTemplates == 2           \* distinct machine templates a deployment switches between
MaxChanges == 2             \* template changes in one behaviour
MaxSurgeBound == 1          \* maxSurge ranges over 0..MaxSurgeBound
MaxUnavailableBound == 1    \* maxUnavailable ranges over 0..MaxUnavailableBound
MaxHistoryLimit == 1        \* revisionHistoryLimit ranges over 0..MaxHistoryLimit

Templates == 1..NumTemplates

VARIABLES
    d,          \* the MachineDeployment: spec, revision annotation
    ms,         \* template -> the MachineSet of that template (name is derived from the template hash)
    created,    \* the existing MachineSets in ascending creationTimestamp
    machines,   \* template -> the non-deleting Machines of that MachineSet: available / not available
    changes,    \* number of template changes so far
    del,        \* one scale-down of a MachineSet: policy, candidates, diff, the Machines returned
    csr,        \* a CertificateSigningRequest, the Machine bound to its node, the last reconcile result
    cloud,      \* the cloud side of one Machine: provider, instances, provider status
    ret,        \* what the last provider call returned
    creates,    \* number of Provider.Create calls so far
    mach,       \* a Machine under deletion, its Node and the position of the deletion reconcile
    nms,        \* creation of the new MachineSet: API server objects, the cache, the deployment
    cfg,        \* one config field, the objects it refers to and what the resolver returned
    occ,        \* one MachineSet in the API server and the reconciles that write it
    mset,       \* one MachineSet with its Machines, one by one
    evi,        \* a Machine being deleted, the cluster around it and the eviction decision
    join,       \* a Machine waiting for its Node to join, and what ensureNodeOwnerRef did
    cln,        \* the old MachineSets handed to cleanupDeployment, and what it left
    nd,         \* a Machine, the Nodes of the cluster and what the node deletion removed
    gn,         \* a cloud instance, the Nodes of the cluster and what getNode returned
    st,         \* a MachineSet in the API server and the status write-back in progress
    av,         \* a Machine, its Node and whether calculateStatus counted it
    prop,       \* active MachineSets handed to the proportional branch of scale, and their new sizes
    sd,         \* the old MachineSets handed to the two scale-down passes, and what the passes wrote
    upd,        \* a MachineDeployment in the API server and an updateMachineDeployment in progress
    adm         \* a MachineDeployment spec handed to admission validation, and the verdict

rolloutVars == <<d, ms, created, machines, changes>>
deleteVars == <<del>>
csrVars == <<csr>>
providerVars == <<cloud, ret, creates>>
machineVars == <<mach>>
stackVars == <<rolloutVars, deleteVars, csrVars, providerVars, machineVars>>
lateVars == <<sd, upd, adm>>
pureVars == <<nd, gn, st, av, prop, lateVars>>
unitVars == <<nms, cfg, occ, mset, evi, join, cln, pureVars>>

vars == <<d, ms, created, machines, changes, del, csr, cloud, ret, creates, mach,
          nms, cfg, occ, mset, evi, join, cln, nd, gn, st, av, prop, sd, upd, adm>>

(***************************************************************************)
(* Helpers                                                                 *)
(***************************************************************************)
Min(a, b) == IF a < b THEN a ELSE b
Max(a, b) == IF a > b THEN a ELSE b

RECURSIVE SumSeq(_)
SumSeq(s) == IF s = <<>> THEN 0 ELSE Head(s) + SumSeq(Tail(s))

RECURSIVE SetToSeq(_)
SetToSeq(S) == IF S = {} THEN <<>>
               ELSE LET x == CHOOSE y \in S : TRUE IN <<x>> \o SetToSeq(S \ {x})

Range(s) == {s[i] : i \in 1..Len(s)}

(***************************************************************************)
(* MachineSet delete policies (package machineset, delete_policy.go)       *)
(*                                                                         *)
(* A candidate Machine is a record                                         *)
(*   deleting  : deletionTimestamp is set and non-zero                     *)
(*   annotated : carries a non-empty cluster.k8s.io/delete-machine         *)
(*   failed    : status.errorReason or status.errorMessage is set          *)
(*   zeroTs    : creationTimestamp is the zero time                        *)
(*   age       : now - creationTimestamp, in units of secondsPerTenDays    *)
(*               (negative: created in the future of the controller clock) *)
(*   available : its Node is available (not read by any policy)            *)
(*                                                                         *)
(* deletePriority is a float64 in the source.  The sort only compares      *)
(* priorities with <, so the model keeps an order-isomorphic integer:      *)
(* every priority is multiplied by PriorityScale, and the age curve        *)
(* 100 * (1 - exp(-age)) is replaced by 100 * min(age, SaturationAge) /    *)
(* SaturationAge: 0 at age 0, strictly increasing, and exactly 100 from    *)
(* SaturationAge on, where float64 rounds 1 - exp(-age) to 1.              *)
(***************************************************************************)
mustDelete == 100
betterDelete == 50
couldDelete == 20
mustNotDelete == 0
SaturationAge == 38         \* exp(-38) < 2^-54 <= exp(-37): 1.0 - exp(-age) = 1.0 in float64 from here on
PriorityScale == SaturationAge

oldestAgeCurve(age) == mustDelete * Min(age, SaturationAge)

oldestDeletePriority(m) ==
    IF m.deleting THEN mustDelete * PriorityScale
    ELSE IF m.annotated THEN mustDelete * PriorityScale
    ELSE IF m.failed THEN mustDelete * PriorityScale
    ELSE IF m.zeroTs THEN mustNotDelete * PriorityScale
    ELSE IF m.age < 0 THEN mustNotDelete * PriorityScale
    ELSE oldestAgeCurve(m.age)

newestDeletePriority(m) ==
    IF m.deleting THEN mustDelete * PriorityScale
    ELSE IF m.annotated THEN mustDelete * PriorityScale
    ELSE IF m.failed THEN mustDelete * PriorityScale
    ELSE mustDelete * PriorityScale - oldestDeletePriority(m)

randomDeletePolicy(m) ==
    IF m.deleting THEN mustDelete * PriorityScale
    ELSE IF m.annotated THEN betterDelete * PriorityScale
    ELSE IF m.failed THEN betterDelete * PriorityScale
    ELSE couldDelete * PriorityScale

DeletePolicies == {"Random", "Newest", "Oldest", ""}

\* getDeletePriorityFunc: the policy names select the priority function; "" is Random.
getDeletePriorityFunc(policy) ==
    CASE policy = "Random" -> "random"
      [] policy = "Newest" -> "newest"
      [] policy = "Oldest" -> "oldest"
      [] policy = ""       -> "random"
      [] OTHER             -> "error"

priority(fun, m) ==
    CASE fun = "oldest" -> oldestDeletePriority(m)
      [] fun = "newest" -> newestDeletePriority(m)
      [] OTHER          -> randomDeletePolicy(m)

\* sortableMachines.Less(i, j): i sorts before j iff priority(j) < priority(i).
Less(fun, mi, mj) == priority(fun, mj) < priority(fun, mi)

\* sort.Sort on fewer than 13 elements is an insertion sort: element m moves
\* left while Less(m, its left neighbour).
RECURSIVE insertMachine(_, _, _)
insertMachine(fun, sorted, m) ==
    IF sorted = <<>> THEN <<m>>
    ELSE LET n == Len(sorted)
             left == sorted[n]
         IN IF Less(fun, m, left)
            THEN Append(insertMachine(fun, SubSeq(sorted, 1, n - 1), m), left)
            ELSE Append(sorted, m)

RECURSIVE sortMachines(_, _)
sortMachines(fun, list) ==
    IF list = <<>> THEN <<>>
    ELSE LET n == Len(list)
         IN insertMachine(fun, sortMachines(fun, SubSeq(list, 1, n - 1)), list[n])

\* a getMachinesToDeletePrioritized that takes the first diff Machines of the
\* list without sorting them
getMachinesToDeletePrioritizedUnsorted(filteredMachines, diff, fun) ==
    IF diff >= Len(filteredMachines) THEN filteredMachines
    ELSE IF diff <= 0 THEN <<>>
    ELSE SubSeq(filteredMachines, 1, diff)

getMachinesToDeletePrioritized(filteredMachines, diff, fun) ==
    IF diff >= Len(filteredMachines) THEN filteredMachines
    ELSE IF diff <= 0 THEN <<>>
    ELSE SubSeq(sortMachines(fun, filteredMachines), 1, diff)

(***************************************************************************)
(* MachineDeployment controller: helpers of package util                   *)
(***************************************************************************)
NoMS == [exists |-> FALSE, replicas |-> 0, revision |-> 0,
         availableReplicas |-> 0, statusReplicas |-> 0, observed |-> TRUE,
                          deletionTimestamp |-> FALSE]

MaxSurge(dep) == dep.maxSurge
MaxUnavailable(dep) == dep.maxUnavailable

\* sum of spec.replicas over the MachineSets listed in sets
GetReplicaCountForMachineSets(msf, sets) ==
    SumSeq([i \in 1..Len(sets) |-> msf[sets[i]].replicas])

\* sum of status.availableReplicas
GetAvailableReplicaCountForMachineSets(msf, sets) ==
    SumSeq([i \in 1..Len(sets) |-> msf[sets[i]].availableReplicas])

\* sum of status.replicas
GetActualReplicaCountForMachineSets(msf, sets) ==
    SumSeq([i \in 1..Len(sets) |-> msf[sets[i]].statusReplicas])

\* the MachineSet whose template equals the deployment's (0: none)
FindNewMachineSet(dep, msf) == IF msf[dep.template].exists THEN dep.template ELSE 0

\* all other MachineSets of the deployment, in ascending creationTimestamp
FindOldMachineSets(dep, crt) == SelectSeq(crt, LAMBDA t : t # dep.template)

RECURSIVE MaxRevision(_, _)
MaxRevision(msf, sets) ==
    IF sets = <<>> THEN 0
    ELSE Max(msf[Head(sets)].revision, MaxRevision(msf, Tail(sets)))

\* NewMSNewReplicas for a rolling update:
\* min(D, newMS.replicas + allowedTotal - sum of replicas), clamped to [0, D]
NewMSNewReplicas(dep, allReplicas, newReplicas) ==
    LET allowedTotal == dep.replicas + MaxSurge(dep)
        target == Min(dep.replicas, newReplicas + allowedTotal - allReplicas)
    IN Max(0, Min(target, dep.replicas))

\* SetNewMachineSetAnnotations: the revision annotation of the new MachineSet
\* is raised to newRevision only if it is smaller.
SetNewMachineSetRevision(oldRevision, newRevision) ==
    IF oldRevision < newRevision THEN newRevision ELSE oldRevision

\* a completion check that every status passes
DeploymentCompleteAlways(dep, status) == TRUE

\* DeploymentComplete: updatedReplicas = D, availableReplicas = D and the
\* status has observed the current generation.
DeploymentComplete(dep, status) ==
    /\ status.updatedReplicas = dep.replicas
    /\ status.availableReplicas = dep.replicas

(***************************************************************************)
(* MachineDeployment controller: sync.go and rolling.go                    *)
(***************************************************************************)
\* scaleMachineSet / scaleMachineSetOperation: write spec.replicas (a new generation)
scaleMachineSet(msf, t, newScale) ==
    IF msf[t].replicas = newScale THEN msf
    ELSE [msf EXCEPT ![t].replicas = newScale, ![t].observed = FALSE]

\* SetDeploymentRevision through updateMachineDeployment
SetDeploymentRevision(dep, revision) == [dep EXCEPT !.revision = revision]

\* a getNewMachineSet that writes maxOldRevision + 1 onto an existing new
\* MachineSet whatever revision it carries
getNewMachineSetOverwrite(dep, msf, crt) ==
    LET existingNewMS == FindNewMachineSet(dep, msf)
        oldMSs == FindOldMachineSets(dep, crt)
        newRevision == MaxRevision(msf, oldMSs) + 1
    IN IF existingNewMS # 0
       THEN IF newRevision # msf[existingNewMS].revision
            THEN [ms |-> [msf EXCEPT ![existingNewMS].revision = newRevision],
                  created |-> crt, dep |-> dep, newMS |-> 0]
            ELSE [ms |-> msf, created |-> crt,
                  dep |-> SetDeploymentRevision(dep, msf[existingNewMS].revision),
                  newMS |-> existingNewMS]
       ELSE [ms |-> [msf EXCEPT ![dep.template] =
                        [exists |-> TRUE,
                         replicas |-> NewMSNewReplicas(dep, GetReplicaCountForMachineSets(msf, oldMSs), 0),
                         revision |-> newRevision,
                         availableReplicas |-> 0, statusReplicas |-> 0, observed |-> FALSE,
                          deletionTimestamp |-> FALSE]],
             created |-> Append(crt, dep.template),
             dep |-> SetDeploymentRevision(dep, newRevision),
             newMS |-> dep.template]

\* getNewMachineSet with createIfNotExisted = true.  newMS = 0 is the nil result.
getNewMachineSet(dep, msf, crt) ==
    LET existingNewMS == FindNewMachineSet(dep, msf)
        oldMSs == FindOldMachineSets(dep, crt)
        newRevision == MaxRevision(msf, oldMSs) + 1
    IN IF existingNewMS # 0
       THEN LET revision == SetNewMachineSetRevision(msf[existingNewMS].revision, newRevision)
            IN IF revision # msf[existingNewMS].revision
               THEN \* annotationsUpdated: update the MachineSet and return nil
                    [ms |-> [msf EXCEPT ![existingNewMS].revision = revision],
                     created |-> crt, dep |-> dep, newMS |-> 0]
               ELSE [ms |-> msf, created |-> crt,
                     dep |-> SetDeploymentRevision(dep, msf[existingNewMS].revision),
                     newMS |-> existingNewMS]
       ELSE LET t == dep.template
                newReplicasCount ==
                    NewMSNewReplicas(dep, GetReplicaCountForMachineSets(msf, oldMSs), 0)
            IN [ms |-> [msf EXCEPT ![t] = [exists |-> TRUE, replicas |-> newReplicasCount,
                                           revision |-> newRevision, availableReplicas |-> 0,
                                           statusReplicas |-> 0, observed |-> FALSE,
                          deletionTimestamp |-> FALSE]],
                created |-> Append(crt, t),
                dep |-> SetDeploymentRevision(dep, newRevision),
                newMS |-> t]

\* a scale-up that ignores the surge: the new MachineSet goes straight to D
reconcileNewMachineSetNoSurge(dep, msf, allMSs, newMS) ==
    scaleMachineSet(msf, newMS, dep.replicas)

\* a scale-up step that never lowers the new MachineSet
reconcileNewMachineSetKeep(dep, msf, allMSs, newMS) ==
    IF msf[newMS].replicas >= dep.replicas THEN msf
    ELSE scaleMachineSet(msf, newMS,
            NewMSNewReplicas(dep, GetReplicaCountForMachineSets(msf, allMSs), msf[newMS].replicas))

reconcileNewMachineSet(dep, msf, allMSs, newMS) ==
    IF msf[newMS].replicas = dep.replicas THEN msf
    ELSE IF msf[newMS].replicas > dep.replicas THEN scaleMachineSet(msf, newMS, dep.replicas)
    ELSE scaleMachineSet(msf, newMS,
            NewMSNewReplicas(dep, GetReplicaCountForMachineSets(msf, allMSs), msf[newMS].replicas))

\* a cleanupUnhealthyReplicas that finds no unhealthy replica
cleanupUnhealthyReplicasNone(msf, oldMSs, maxCleanupCount, totalScaledDown) ==
    [ms |-> msf, count |-> 0, err |-> FALSE]

\* cleanupUnhealthyReplicas: the loop over the old MachineSets, oldest first.
\* The result carries the MachineSets as written so far, the total scaled
\* down and whether the loop ended with an error.
RECURSIVE cleanupUnhealthyReplicas(_, _, _, _)
cleanupUnhealthyReplicas(msf, oldMSs, maxCleanupCount, totalScaledDown) ==
    IF oldMSs = <<>> \/ totalScaledDown >= maxCleanupCount
    THEN [ms |-> msf, count |-> totalScaledDown, err |-> FALSE]
    ELSE LET targetMS == Head(oldMSs)
             oldMSReplicas == msf[targetMS].replicas
             oldMSAvailableReplicas == msf[targetMS].availableReplicas
             remainingCleanupCount == maxCleanupCount - totalScaledDown
             unhealthyCount == oldMSReplicas - oldMSAvailableReplicas
             scaledDownCount == Min(remainingCleanupCount, unhealthyCount)
             newReplicasCount == oldMSReplicas - scaledDownCount
         IN IF oldMSReplicas = 0 \/ oldMSReplicas = oldMSAvailableReplicas
            THEN cleanupUnhealthyReplicas(msf, Tail(oldMSs), maxCleanupCount, totalScaledDown)
            ELSE IF newReplicasCount > oldMSReplicas
            THEN [ms |-> msf, count |-> 0, err |-> TRUE]
            ELSE cleanupUnhealthyReplicas(scaleMachineSet(msf, targetMS, newReplicasCount),
                                          Tail(oldMSs), maxCleanupCount,
                                          totalScaledDown + scaledDownCount)

RECURSIVE scaleDownLoop(_, _, _, _)
scaleDownLoop(msf, oldMSs, totalScaleDownCount, totalScaledDown) ==
    IF oldMSs = <<>> \/ totalScaledDown >= totalScaleDownCount THEN msf
    ELSE LET targetMS == Head(oldMSs)
             scaleDownCount == Min(msf[targetMS].replicas, totalScaleDownCount - totalScaledDown)
             newReplicasCount == msf[targetMS].replicas - scaleDownCount
         IN IF msf[targetMS].replicas = 0
            THEN scaleDownLoop(msf, Tail(oldMSs), totalScaleDownCount, totalScaledDown)
            ELSE IF newReplicasCount > msf[targetMS].replicas
            THEN msf
            ELSE scaleDownLoop(scaleMachineSet(msf, targetMS, newReplicasCount), Tail(oldMSs),
                               totalScaleDownCount, totalScaledDown + scaleDownCount)

\* a scale-down that never finds anything to scale down
scaleDownOldMachineSetsNever(dep, msf, allMSs, oldMSs) == msf

scaleDownOldMachineSetsForRollingUpdate(dep, msf, allMSs, oldMSs) ==
    LET minAvailable == dep.replicas - MaxUnavailable(dep)
        availableMachineCount == GetAvailableReplicaCountForMachineSets(msf, allMSs)
    IN IF availableMachineCount <= minAvailable THEN msf
       ELSE scaleDownLoop(msf, oldMSs, availableMachineCount - minAvailable, 0)

reconcileOldMachineSets(dep, msf, allMSs, oldMSs, newMS) ==
    LET oldMachinesCount == GetReplicaCountForMachineSets(msf, oldMSs)
        allMachinesCount == GetReplicaCountForMachineSets(msf, allMSs)
        minAvailable == dep.replicas - MaxUnavailable(dep)
        newMSUnavailableMachineCount == msf[newMS].replicas - msf[newMS].availableReplicas
        maxScaledDown == allMachinesCount - minAvailable - newMSUnavailableMachineCount
    IN IF oldMachinesCount = 0 THEN msf
       ELSE IF maxScaledDown <= 0 THEN msf
       ELSE LET c == cleanupUnhealthyReplicas(msf, oldMSs, maxScaledDown, 0)
            IN IF c.err THEN c.ms
               ELSE scaleDownOldMachineSetsForRollingUpdate(dep, c.ms, allMSs, oldMSs)

\* calculateStatus of the deployment (the fields DeploymentComplete reads)
calculateStatus(msf, allMSs, newMS) ==
    [replicas |-> GetActualReplicaCountForMachineSets(msf, allMSs),
     updatedReplicas |-> GetActualReplicaCountForMachineSets(msf, <<newMS>>),
     availableReplicas |-> GetAvailableReplicaCountForMachineSets(msf, allMSs)]

\* a cleanupDeployment that deletes the oldest old MachineSets beyond the
\* limit whatever their replicas, generation and deletionTimestamp are
cleanupDeploymentAny(dep, msf, crt, oldMSs) ==
    LET diff == Len(oldMSs) - dep.revisionHistoryLimit
        deleted == {oldMSs[j] : j \in {i \in 1..Len(oldMSs) : i <= diff}}
    IN [ms |-> [t \in DOMAIN msf |-> IF t \in deleted THEN NoMS ELSE msf[t]],
        created |-> SelectSeq(crt, LAMBDA t : t \notin deleted)]

\* cleanupDeployment: of the old MachineSets without deletionTimestamp, in
\* ascending creationTimestamp, the first len - revisionHistoryLimit are
\* deleted, skipping those that still have replicas or an unobserved generation.
cleanupDeployment(dep, msf, crt, oldMSs) ==
    LET cleanableMSes == SelectSeq(crt, LAMBDA t : /\ t \in Range(oldMSs)
                                                   /\ ~msf[t].deletionTimestamp)
        diff == Len(cleanableMSes) - dep.revisionHistoryLimit
        deleted == {cleanableMSes[i] : i \in {j \in 1..Len(cleanableMSes) :
                        /\ j <= diff
                        /\ msf[cleanableMSes[j]].statusReplicas = 0
                        /\ msf[cleanableMSes[j]].replicas = 0
                        /\ msf[cleanableMSes[j]].observed
                        /\ ~msf[cleanableMSes[j]].deletionTimestamp}}
    IN IF diff <= 0 THEN [ms |-> msf, created |-> crt]
       ELSE [ms |-> [t \in DOMAIN msf |-> IF t \in deleted THEN NoMS ELSE msf[t]],
             created |-> SelectSeq(crt, LAMBDA t : t \notin deleted)]

(***************************************************************************)
(* MachineSet controller: population sync and status                       *)
(***************************************************************************)
NoMachines == [a |-> 0, u |-> 0]

\* a Machine of a deployment-owned MachineSet: no marks, a creation timestamp
Machine(available) ==
    [deleting |-> FALSE, annotated |-> FALSE, failed |-> FALSE, zeroTs |-> FALSE,
     age |-> 1, available |-> available]

\* the orders in which the lister may return the Machines of a MachineSet
ListMachines(bag) ==
    LET n == bag.a + bag.u
    IN {[i \in 1..n |-> Machine(s[i])] :
            s \in {f \in [1..n -> BOOLEAN] : Cardinality({i \in 1..n : f[i]}) = bag.a}}

CountAvailable(list) == Cardinality({i \in 1..Len(list) : list[i].available})

\* status.go calculateStatus over the filtered Machines
machineSetStatus(bag) == [replicas |-> bag.a + bag.u, availableReplicas |-> bag.a]

\* one reconcile of a MachineSet: create the missing Machines or delete the
\* surplus chosen by the delete policy, then write the status back.
syncReplicas(replicas, list, policy) ==
    LET diff == Len(list) - replicas
        doomed == IF diff > 0
                  THEN getMachinesToDeletePrioritized(list, diff, getDeletePriorityFunc(policy))
                  ELSE <<>>
        gone == CountAvailable(doomed)
    IN [a |-> CountAvailable(list) - gone,
        u |-> (Len(list) - CountAvailable(list)) - (Len(doomed) - gone)
              + (IF diff < 0 THEN 0 - diff ELSE 0)]

(***************************************************************************)
(* Rollout: the actions                                                    *)
(***************************************************************************)
\* the other subsystems are not running
DeleteIdle == del = "idle"
CSRIdle == csr = "idle"
ProviderIdle == cloud = "idle" /\ ret = "idle" /\ creates = 0
MachineIdle == mach = "idle"
RolloutIdle ==
    d = "idle" /\ ms = "idle" /\ created = "idle" /\ machines = "idle" /\ changes = 0
StackIdle == RolloutIdle /\ DeleteIdle /\ CSRIdle /\ ProviderIdle /\ MachineIdle
LateIdle == sd = "idle" /\ upd = "idle" /\ adm = "idle"
PureIdle ==
    /\ nd = "idle" /\ gn = "idle" /\ st = "idle" /\ av = "idle" /\ prop = "idle"
    /\ LateIdle
UnitsIdle ==
    /\ PureIdle
    /\ nms = "idle" /\ cfg = "idle" /\ occ = "idle"
    /\ mset = "idle" /\ evi = "idle" /\ join = "idle" /\ cln = "idle"

Strategies ==
    {s \in [replicas : 1..MaxReplicas, maxSurge : 0..MaxSurgeBound,
            maxUnavailable : 0..MaxUnavailableBound,
            revisionHistoryLimit : 0..MaxHistoryLimit] :
        ~(s.maxSurge = 0 /\ s.maxUnavailable = 0)}

\* A deployment steady on template 1: one MachineSet with D available Machines.
Init ==
    /\ \E s \in Strategies :
        /\ d = [replicas |-> s.replicas, template |-> 1, revision |-> 1,
                maxSurge |-> s.maxSurge, maxUnavailable |-> s.maxUnavailable,
                revisionHistoryLimit |-> s.revisionHistoryLimit]
        /\ ms = [t \in Templates |->
                    IF t = 1
                    THEN [exists |-> TRUE, replicas |-> s.replicas, revision |-> 1,
                          availableReplicas |-> s.replicas, statusReplicas |-> s.replicas,
                          observed |-> TRUE,
                          deletionTimestamp |-> FALSE]
                    ELSE NoMS]
        /\ created = <<1>>
        /\ machines = [t \in Templates |-> IF t = 1 THEN [a |-> s.replicas, u |-> 0]
                                           ELSE NoMachines]
        /\ changes = 0
    /\ DeleteIdle /\ CSRIdle /\ ProviderIdle /\ MachineIdle /\ UnitsIdle

\* the user edits spec.template: a new template, or a rollback to an earlier one
TemplateChange(t) ==
    /\ changes < MaxChanges
    /\ t # d.template
    /\ d' = [d EXCEPT !.template = t]
    /\ changes' = changes + 1
    /\ UNCHANGED <<ms, created, machines>>
    /\ UNCHANGED <<deleteVars, csrVars, providerVars, machineVars, unitVars>>

\* rolloutRolling: one reconcile of the MachineDeployment.  A nil new
\* MachineSet (newMS = 0) ends the reconcile after getNewMachineSet.
RolloutRolling ==
    \E g \in {getNewMachineSet(d, ms, created)} :
    \E oldMSs \in {FindOldMachineSets(d, g.created)} :
    \E allMSs \in {IF g.newMS = 0 THEN oldMSs ELSE Append(oldMSs, g.newMS)} :
    \E scaledUp \in {IF g.newMS = 0 THEN g.ms
                     ELSE reconcileNewMachineSet(g.dep, g.ms, allMSs, g.newMS)} :
    \E scaledDown \in {IF g.newMS = 0 THEN scaledUp
                       ELSE reconcileOldMachineSets(g.dep, scaledUp, allMSs, oldMSs, g.newMS)} :
    \E c \in {IF g.newMS # 0 /\ DeploymentComplete(g.dep, calculateStatus(scaledDown, allMSs, g.newMS))
              THEN cleanupDeployment(g.dep, scaledDown, g.created, oldMSs)
              ELSE [ms |-> scaledDown, created |-> g.created]} :
       /\ d' = g.dep
       /\ ms' = c.ms
       /\ created' = c.created
       /\ machines' = [t \in Templates |-> IF c.ms[t].exists THEN machines[t] ELSE NoMachines]
       /\ UNCHANGED changes
       /\ UNCHANGED <<deleteVars, csrVars, providerVars, machineVars, unitVars>>

\* one reconcile of the MachineSet of template t
MachineSetReconcile(t) ==
    /\ ms[t].exists
    /\ \E list \in ListMachines(machines[t]) :
       \E after \in {syncReplicas(ms[t].replicas, list, "")} :
       \E status \in {machineSetStatus(after)} :
          /\ machines' = [machines EXCEPT ![t] = after]
          /\ ms' = [ms EXCEPT ![t].statusReplicas = status.replicas,
                              ![t].availableReplicas = status.availableReplicas,
                              ![t].observed = TRUE]
    /\ UNCHANGED <<d, created, changes>>
    /\ UNCHANGED <<deleteVars, csrVars, providerVars, machineVars, unitVars>>

\* the node of a Machine of template t has been ready for minReadySeconds
MachineBecomesAvailable(t) ==
    /\ machines[t].u > 0
    /\ machines' = [machines EXCEPT ![t] = [a |-> @.a + 1, u |-> @.u - 1]]
    /\ UNCHANGED <<d, ms, created, changes>>
    /\ UNCHANGED <<deleteVars, csrVars, providerVars, machineVars, unitVars>>

Next ==
    \/ \E t \in Templates : TemplateChange(t)
    \/ RolloutRolling
    \/ \E t \in Templates : MachineSetReconcile(t)
    \/ \E t \in Templates : MachineBecomesAvailable(t)

Spec == Init /\ [][Next]_vars

\* fairness: every reconcile eventually runs, every Machine eventually becomes available
SpecFair ==
    /\ Init
    /\ [][Next]_vars
    /\ WF_vars(RolloutRolling)
    /\ \A t \in Templates : WF_vars(MachineSetReconcile(t))
    /\ \A t \in Templates : WF_vars(MachineBecomesAvailable(t))

TotalReplicas == GetReplicaCountForMachineSets(ms, created)
TotalAvailable == SumSeq([i \in 1..NumTemplates |-> machines[i].a])
AllowedTotal == d.replicas + MaxSurge(d)
MinAvailable == d.replicas - MaxUnavailable(d)
OldReplicas == GetReplicaCountForMachineSets(ms, FindOldMachineSets(d, created))

(***************************************************************************)
(* Rollout from an arbitrary state within the surge budget                 *)
(***************************************************************************)
\* templates are interchangeable: the MachineSets that exist were created in
\* the order of their template numbers
CreationOrders == {[i \in 1..n |-> i] : n \in 0..NumTemplates}

IndexOf(s, x) == CHOOSE i \in 1..Len(s) : s[i] = x

\* any set of MachineSets whose spec.replicas sum to at most D + maxSurge;
\* the deployment has not been reconciled yet (no revision annotation)
InitSurge ==
    /\ \E s \in Strategies, t0 \in Templates, crt \in CreationOrders,
          rep \in [Templates -> 0..(MaxReplicas + MaxSurgeBound)] :
        /\ \A t \in Templates : t \notin Range(crt) => rep[t] = 0
        /\ SumSeq([i \in 1..NumTemplates |-> rep[i]]) <= s.replicas + s.maxSurge
        /\ d = [replicas |-> s.replicas, template |-> t0, revision |-> 0,
                maxSurge |-> s.maxSurge, maxUnavailable |-> s.maxUnavailable,
                revisionHistoryLimit |-> s.revisionHistoryLimit]
        /\ ms = [t \in Templates |->
                    IF t \in Range(crt)
                    THEN [exists |-> TRUE, replicas |-> rep[t], revision |-> IndexOf(crt, t),
                          availableReplicas |-> 0, statusReplicas |-> 0, observed |-> FALSE,
                          deletionTimestamp |-> FALSE]
                    ELSE NoMS]
        /\ created = crt
    /\ machines = [t \in Templates |-> NoMachines]
    /\ changes = 0
    /\ DeleteIdle /\ CSRIdle /\ ProviderIdle /\ MachineIdle /\ UnitsIdle

\* the MachineSet controller writes a status: any number of Machines, all of
\* them available (the deployment reads availableReplicas and, for the
\* cleanup of old MachineSets, status.replicas and the observed generation)
StatusChange(t) ==
    /\ ms[t].exists
    /\ \E a \in 0..MaxReplicas :
          ms' = [ms EXCEPT ![t].availableReplicas = a, ![t].statusReplicas = a,
                           ![t].observed = TRUE]
    /\ UNCHANGED <<d, created, machines, changes>>
    /\ UNCHANGED <<deleteVars, csrVars, providerVars, machineVars, unitVars>>

NextSurge ==
    \/ RolloutRolling
    \/ \E t \in Templates : StatusChange(t)

SpecSurge == InitSurge /\ [][NextSurge]_vars

(***************************************************************************)
(* Rollout: properties                                                     *)
(***************************************************************************)
\* C1 (surge budget): from any state in which the spec.replicas of the
\* deployment's MachineSets sum to at most D + maxSurge, every rolloutRolling
\* reconcile, interleaved with arbitrary status changes, keeps that sum at
\* most D + maxSurge.
SurgeBudget == TotalReplicas <= AllowedTotal

\* the deployment has been reconciled, old and new MachineSets both hold
\* replicas and the surge is used up
SurgeBudgetWitness ==
    /\ d.revision > 0
    /\ MaxSurge(d) > 0
    /\ ms[d.template].exists /\ ms[d.template].replicas > 0
    /\ OldReplicas > 0
    /\ TotalReplicas = AllowedTotal

\* C2 (availability budget): no interleaving of deployment and MachineSet
\* reconciles takes the number of available Machines of the deployment below
\* D - maxUnavailable.
AvailabilityBudget == TotalAvailable >= MinAvailable

\* the new MachineSet holds all D replicas, every old one holds none
Converged ==
    /\ ms[d.template].exists
    /\ ms[d.template].replicas = d.replicas
    /\ \A t \in Templates : t # d.template => ms[t].replicas = 0

RevisionMonotonic ==
    [][/\ d'.revision >= d.revision
       /\ \A t \in Templates :
            (ms[t].exists /\ ms'[t].exists) => ms'[t].revision >= ms[t].revision]_vars

\* a rollback has raised the revision of the first MachineSet, and the
\* deployment carries it
RevisionMonotonicWitness ==
    /\ changes > 1
    /\ ms[1].exists /\ ms[1].revision > 2
    /\ d.template = 1 /\ d.revision = ms[1].revision

(***************************************************************************)
(* MachineSet scale-down: getMachinesToDeletePrioritized on any candidates *)
(***************************************************************************)
MaxCandidates == 3          \* candidate lists have 2..MaxCandidates Machines
MaxYoungAge == 2            \* unmarked Machines are 1..MaxYoungAge ten-day units old, or older than SaturationAge

Unmarked(zeroTs, age) ==
    [deleting |-> FALSE, annotated |-> FALSE, failed |-> FALSE, zeroTs |-> zeroTs,
     age |-> age, available |-> TRUE]

\* the Machines a candidate list is made of
CandidateMachines ==
    {[Unmarked(FALSE, 1) EXCEPT !.deleting = TRUE],
     [Unmarked(FALSE, 1) EXCEPT !.annotated = TRUE],
     [Unmarked(FALSE, 1) EXCEPT !.failed = TRUE],
     Unmarked(TRUE, 0),                      \* no creation timestamp
     Unmarked(FALSE, 0 - 1),                 \* created after the controller's "now"
     Unmarked(FALSE, SaturationAge)}         \* older than 380 days
    \cup {Unmarked(FALSE, age) : age \in 1..MaxYoungAge}

CandidateLists == UNION {[1..n -> CandidateMachines] : n \in 2..MaxCandidates}

InitDelete ==
    /\ \E policy \in DeletePolicies, list \in CandidateLists :
       \E diff \in 0..Len(list) :
          del = [policy |-> policy, machines |-> list, diff |-> diff,
                 returned |-> <<>>, done |-> FALSE]
    /\ d = "idle" /\ ms = "idle" /\ created = "idle" /\ machines = "idle" /\ changes = 0
    /\ CSRIdle /\ ProviderIdle /\ MachineIdle /\ UnitsIdle

\* the MachineSet controller picks the Machines to delete
SelectMachinesToDelete ==
    /\ ~del.done
    /\ del' = [del EXCEPT
                 !.returned = getMachinesToDeletePrioritized(del.machines, del.diff,
                                                            getDeletePriorityFunc(del.policy)),
                 !.done = TRUE]
    /\ UNCHANGED <<rolloutVars, csrVars, providerVars, machineVars, unitVars>>

NextDelete == SelectMachinesToDelete

SpecDelete == InitDelete /\ [][NextDelete]_vars

Marked(m) == m.deleting \/ m.annotated \/ m.failed
CountIn(list, P(_)) == Cardinality({i \in 1..Len(list) : P(list[i])})
IsUnmarked(m) == ~Marked(m)

\* C9 (delete priority ordering): for every policy, candidate list and diff
\* with 0 < diff < number of candidates, no returned Machine is of a lower
\* priority class than one that was not returned; in particular no Machine
\* without marks is returned while a Machine that is being deleted, carries
\* the delete-machine annotation or has an error status is left out.
DeletePriorityOrdering ==
    (del.done /\ 0 < del.diff /\ del.diff < Len(del.machines)) =>
        ~(/\ CountIn(del.returned, IsUnmarked) > 0
          /\ CountIn(del.returned, Marked) < CountIn(del.machines, Marked))

(***************************************************************************)
(* Node CSR approver (package nodecsrapprover)                             *)
(*                                                                         *)
(* A username is a record: the part matched by the node user prefix and    *)
(* the rest, so that HasPrefix and TrimPrefix are computed, not assumed.   *)
(* spec.request is a number of PEM blocks and the DER of the first one:    *)
(* what x509.ParseCertificateRequest reads from it, or bytes it rejects    *)
(* (parsable = FALSE).                                                     *)
(***************************************************************************)
nodeUserPrefix == "system:node:"
nodeGroup == "system:nodes"
authenticatedGroup == "system:authenticated"
allowedUsages == {"digital signature", "key encipherment", "server auth"}

NodeName == "node-1"
NodeUsername == [prefix |-> nodeUserPrefix, rest |-> NodeName]
Usernames == {NodeUsername,
              [prefix |-> nodeUserPrefix, rest |-> ""],
              [prefix |-> "", rest |-> "admin"]}

\* the Machine bound to node-1, when there is one
MachineAddresses == {"10.0.0.1", "node-1.internal"}

GroupLists == SUBSET {nodeGroup, authenticatedGroup}
              \cup {{nodeGroup, authenticatedGroup, "system:masters"}}
UsageLists == SUBSET allowedUsages
              \cup {{"client auth"}, allowedUsages \cup {"client auth"}}
Garbage ==
    [parsable |-> FALSE, cn |-> [prefix |-> "", rest |-> ""], organization |-> <<>>,
     dnsNames |-> {}, ipAddresses |-> {}]
X509Requests ==
    [parsable : {TRUE},
     cn : {NodeUsername, [prefix |-> "", rest |-> "admin"]},
     organization : {<<>>, <<nodeGroup>>, <<"system:masters">>, <<nodeGroup, "system:masters">>},
     dnsNames : SUBSET {"", NodeName, "evil.example"},
     ipAddresses : {{}, {"10.0.0.1"}, {"10.0.0.2"}}]
Requests ==
    {[blocks |-> 0, der |-> Garbage]}
    \cup {[blocks |-> 1, der |-> x] : x \in X509Requests \cup {Garbage}}
    \cup {[blocks |-> 2, der |-> x] :
            x \in {Garbage, [parsable |-> TRUE, cn |-> NodeUsername,
                             organization |-> <<nodeGroup>>,
                             dnsNames |-> {NodeName}, ipAddresses |-> {"10.0.0.1"}]}}
CSRObjects ==
    [username : Usernames, groups : GroupLists, usages : UsageLists,
     request : Requests, approved : BOOLEAN]

HasPrefix(username, prefix) == username.prefix = prefix
TrimPrefix(username, prefix) == IF username.prefix = prefix THEN username.rest ELSE username

\* a validation of the usages that lets every usage through
validateCSRObjectAnyUsage(obj) ==
    IF ~HasPrefix(obj.username, nodeUserPrefix) THEN [ok |-> FALSE, nodeName |-> ""]
    ELSE IF TrimPrefix(obj.username, nodeUserPrefix) = "" THEN [ok |-> FALSE, nodeName |-> ""]
    ELSE IF Cardinality(obj.groups) < 2 THEN [ok |-> FALSE, nodeName |-> ""]
    ELSE IF ~({nodeGroup, authenticatedGroup} \subseteq obj.groups)
    THEN [ok |-> FALSE, nodeName |-> ""]
    ELSE [ok |-> TRUE, nodeName |-> TrimPrefix(obj.username, nodeUserPrefix)]

validateCSRObject(obj) ==
    IF ~HasPrefix(obj.username, nodeUserPrefix) THEN [ok |-> FALSE, nodeName |-> ""]
    ELSE IF TrimPrefix(obj.username, nodeUserPrefix) = "" THEN [ok |-> FALSE, nodeName |-> ""]
    ELSE IF Cardinality(obj.groups) < 2 THEN [ok |-> FALSE, nodeName |-> ""]
    ELSE IF ~({nodeGroup, authenticatedGroup} \subseteq obj.groups)
    THEN [ok |-> FALSE, nodeName |-> ""]
    ELSE IF \E usage \in obj.usages : usage \notin allowedUsages
    THEN [ok |-> FALSE, nodeName |-> ""]
    ELSE [ok |-> TRUE, nodeName |-> TrimPrefix(obj.username, nodeUserPrefix)]

\* a validation of the certificate request that accepts everything
validateX509CSRAccept(obj, certReq, nodeRefName, addresses) == TRUE

\* TRUE when the certificate request is valid (the source returns nil)
validateX509CSR(obj, certReq, nodeRefName, addresses) ==
    LET machineAddressSet == {nodeRefName} \cup addresses
    IN IF certReq.cn # obj.username THEN FALSE
       ELSE IF Len(certReq.organization) # 1 THEN FALSE
       ELSE IF certReq.organization[1] # nodeGroup THEN FALSE
       ELSE IF \E dns \in certReq.dnsNames : dns # "" /\ dns \notin machineAddressSet THEN FALSE
       ELSE IF \E ip \in certReq.ipAddresses : ip # "" /\ ip \notin machineAddressSet THEN FALSE
       ELSE TRUE

\* the Machine whose status.nodeRef.name is nodeName
getMachineForNode(bound, nodeName) == bound /\ nodeName = NodeName

\* reconcile: the CSR's Approved condition afterwards, and the error returned
reconcile(obj, bound) ==
    LET v == validateCSRObject(obj)
    IN IF obj.approved THEN [approved |-> TRUE, result |-> "nil"]
       ELSE IF ~v.ok THEN [approved |-> FALSE, result |-> "nil"]
       ELSE IF ~getMachineForNode(bound, v.nodeName) THEN [approved |-> FALSE, result |-> "error"]
       ELSE IF obj.request.blocks = 0 THEN [approved |-> FALSE, result |-> "error"]
       ELSE IF obj.request.blocks > 1 THEN [approved |-> FALSE, result |-> "error"]
       ELSE IF ~obj.request.der.parsable THEN [approved |-> FALSE, result |-> "error"]
       ELSE IF ~validateX509CSR(obj, obj.request.der, v.nodeName, MachineAddresses)
       THEN [approved |-> FALSE, result |-> "error"]
       ELSE [approved |-> TRUE, result |-> "nil"]

InitCSR ==
    /\ \E obj \in CSRObjects, bound \in BOOLEAN :
          csr = [obj |-> obj, bound |-> bound, before |-> obj.approved, result |-> "none"]
    /\ d = "idle" /\ ms = "idle" /\ created = "idle" /\ machines = "idle" /\ changes = 0
    /\ DeleteIdle /\ ProviderIdle /\ MachineIdle /\ UnitsIdle

\* Reconcile of the CSR
CSRReconcile ==
    /\ \E r \in {reconcile(csr.obj, csr.bound)} :
          csr' = [csr EXCEPT !.obj.approved = r.approved, !.result = r.result]
    /\ UNCHANGED <<rolloutVars, deleteVars, providerVars, machineVars, unitVars>>

NextCSR == CSRReconcile

SpecCSR == InitCSR /\ [][NextCSR]_vars

\* the conditions on the CSR object itself
UsernameOfNode(obj) == obj.username.prefix = nodeUserPrefix /\ obj.username.rest # ""
GroupsOfNode(obj) == nodeGroup \in obj.groups /\ authenticatedGroup \in obj.groups
MachineForNode == csr.bound /\ csr.obj.username.rest = NodeName
OneParsedBlock(obj) == obj.request.blocks = 1 /\ obj.request.der.parsable
SubjectOfNode(obj) ==
    /\ obj.request.der.cn = obj.username
    /\ obj.request.der.organization = <<nodeGroup>>
AddressSet == {NodeName} \cup MachineAddresses
Reconciled == csr.result # "none" /\ ~csr.before

ObjectValid(obj) ==
    UsernameOfNode(obj) /\ GroupsOfNode(obj) /\ obj.usages \subseteq allowedUsages

\* C8 as stated: after every kind of validation failure the CSR is unchanged
\* and the reconcile returned without an error.
CSRFailuresSilent ==
    (Reconciled /\ ~csr.obj.approved) => csr.result = "nil"

\* C8 as the code has it: after every kind of validation failure the CSR is
\* unchanged; the reconcile returns without an error only when the CSR object
\* itself (username, groups, usages) is invalid, and returns an error when no
\* Machine is bound to the node, the PEM or x509 request cannot be read, or
\* CN, Organization or a SAN does not match.
CSRFailuresHandled ==
    (Reconciled /\ ~(/\ ObjectValid(csr.obj)
                     /\ MachineForNode
                     /\ OneParsedBlock(csr.obj)
                     /\ SubjectOfNode(csr.obj)
                     /\ (csr.obj.request.der.dnsNames \ {""}) \subseteq AddressSet
                     /\ (csr.obj.request.der.ipAddresses \ {""}) \subseteq AddressSet))
        => /\ ~csr.obj.approved
           /\ (csr.result = "nil") <=> ~ObjectValid(csr.obj)
           /\ (csr.result = "error") <=> ObjectValid(csr.obj)

\* a CSR of a node whose certificate request names a foreign address has been
\* left pending, with an error
CSRFailuresWitness ==
    /\ Reconciled
    /\ ~csr.obj.approved
    /\ csr.result = "error"
    /\ ObjectValid(csr.obj) /\ MachineForNode /\ OneParsedBlock(csr.obj)
    /\ "10.0.0.2" \in csr.obj.request.der.ipAddresses

(***************************************************************************)
(* Cloud providers: Create and Cleanup of digitalocean, gce and anexia     *)
(*                                                                         *)
(* cloud.instances counts the cloud instances that carry the Machine's     *)
(* name and UID and that the provider's Get can find (running or being     *)
(* deleted), cloud.terminating those whose deletion the cloud has          *)
(* accepted, cloud.untracked the anexia VMs whose provisioning ID never    *)
(* reached the Machine status, cloud.labelled the gce instances that carry  *)
(* the Machine's UID label under another name.  cloud.status is the anexia *)
(* provider status                                                         *)
(* stored in the Machine, cloud.task the anexia deprovisioning task.  A    *)
(* provider call is a set of outcomes: the cloud API may fail.             *)
(***************************************************************************)
MaxCreateCalls == 2         \* Provider.Create is called at most MaxCreateCalls times

Providers == {"digitalocean", "gce", "anexia"}

NoStatus == [provisioningID |-> FALSE, instanceID |-> FALSE, deprovisioningID |-> FALSE]

NoCloud(p) == [provider |-> p, instances |-> 0, terminating |-> 0, untracked |-> 0,
               labelled |-> 0, status |-> NoStatus, task |-> "none"]

\* every cloud instance that was created for the Machine and still exists
Instances(c) == c.instances + c.untracked

\* digitalocean Create: Droplets.Create, then poll until the UID tag shows
digitaloceanCreate(c) ==
    {[cloud |-> c, err |-> TRUE]}
    \cup {[cloud |-> [c EXCEPT !.instances = @ + 1], err |-> pollFailed] :
            pollFailed \in BOOLEAN}

\* digitalocean Cleanup: get by name and UID tag, then Droplets.Delete
digitaloceanCleanup(c) ==
    IF c.instances = 0
    THEN {[cloud |-> c, done |-> TRUE, err |-> FALSE],
          [cloud |-> c, done |-> FALSE, err |-> TRUE]}
    ELSE {[cloud |-> c, done |-> FALSE, err |-> TRUE],
          [cloud |-> [c EXCEPT !.terminating = Max(@, 1)], done |-> FALSE, err |-> FALSE]}

\* gce Create: Instances.Insert under the Machine's name (a name in use is
\* refused), wait for the zone operation, then Get
gceCreate(c) ==
    IF c.instances > 0
    THEN {[cloud |-> c, err |-> TRUE]}
    ELSE {[cloud |-> c, err |-> TRUE]}
         \cup {[cloud |-> [c EXCEPT !.instances = 1], err |-> waitFailed \/ c.labelled > 0] :
                 waitFailed \in BOOLEAN}

\* gce Cleanup: Instances.Delete by name, 404 means gone; else wait for the operation
gceCleanup(c) ==
    IF c.instances = 0
    THEN {[cloud |-> c, done |-> TRUE, err |-> FALSE],
          [cloud |-> c, done |-> FALSE, err |-> TRUE]}
    ELSE {[cloud |-> c, done |-> FALSE, err |-> TRUE],
          [cloud |-> [c EXCEPT !.terminating = Max(@, 1)], done |-> FALSE, err |-> TRUE],
          [cloud |-> [c EXCEPT !.instances = @ - 1, !.terminating = Max(@ - 1, 0)],
           done |-> FALSE, err |-> FALSE]}

\* anexia Get: decided by the provider status in the Machine
anexiaGet(c) ==
    IF ~c.status.instanceID /\ ~c.status.provisioningID
    THEN {[cloud |-> c, found |-> "notFound"]}
    ELSE IF c.status.deprovisioningID
    THEN {[cloud |-> c, found |-> "deleting"]}
    ELSE IF ~c.status.instanceID
    THEN {[cloud |-> c, found |-> "error"],
          [cloud |-> c, found |-> "creating"],
          [cloud |-> [c EXCEPT !.status.instanceID = TRUE], found |-> "running"],
          [cloud |-> [c EXCEPT !.status.instanceID = TRUE], found |-> "error"]}
    ELSE {[cloud |-> c, found |-> "running"], [cloud |-> c, found |-> "error"]}

\* an anexia Create that provisions whatever the status holds
anexiaCreateAlways(c) ==
    {[cloud |-> c, err |-> TRUE]}
    \cup {[cloud |-> [c EXCEPT !.untracked = @ + 1], err |-> TRUE]}
    \cup {[cloud |-> g.cloud, err |-> g.found = "error"] :
            g \in anexiaGet([c EXCEPT !.instances = @ + 1,
                                      !.status.provisioningID = TRUE])}

\* anexia Create / provisionVM: provision only when the status holds no
\* provisioning ID, store the ID in the Machine (the VM is untracked when
\* both status updates fail), then Get
anexiaCreate(c) ==
    IF ~c.status.provisioningID
    THEN {[cloud |-> c, err |-> TRUE]}
         \cup {[cloud |-> [c EXCEPT !.untracked = @ + 1], err |-> TRUE]}
         \cup {[cloud |-> g.cloud, err |-> g.found = "error"] :
                 g \in anexiaGet([c EXCEPT !.instances = @ + 1,
                                           !.status.provisioningID = TRUE])}
    ELSE {[cloud |-> g.cloud, err |-> g.found = "error"] : g \in anexiaGet(c)}

\* an isTaskDone that drops the errors of a failed task
isTaskDoneErrorsDropped(c) ==
    {[cloud |-> c, done |-> FALSE, err |-> TRUE]}
    \cup {[cloud |-> c, done |-> c.task \in {"failed", "done"}, err |-> FALSE]}

\* anexia isTaskDone: progress API error; task errors; progress = 100; else running
isTaskDone(c) ==
    {[cloud |-> c, done |-> FALSE, err |-> TRUE]}
    \cup {IF c.task = "failed" THEN [cloud |-> c, done |-> TRUE, err |-> TRUE]
          ELSE IF c.task = "done" THEN [cloud |-> c, done |-> TRUE, err |-> FALSE]
          ELSE [cloud |-> c, done |-> FALSE, err |-> FALSE]}

\* anexia Cleanup after Get found an instance: Deprovision unless a
\* deprovisioning ID is stored, then isTaskDone
anexiaDeprovision(c) ==
    IF ~c.status.deprovisioningID
    THEN {[cloud |-> c, done |-> FALSE, err |-> TRUE]}
         \cup (IF c.instances = 0
               THEN {[cloud |-> c, done |-> TRUE, err |-> FALSE]}
               ELSE isTaskDone([c EXCEPT !.status.deprovisioningID = TRUE,
                                         !.task = "running"]))
    ELSE isTaskDone(c)

anexiaCleanup(c) ==
    UNION {IF g.found = "notFound" THEN {[cloud |-> g.cloud, done |-> TRUE, err |-> FALSE]}
           ELSE IF g.found = "error" THEN {[cloud |-> g.cloud, done |-> FALSE, err |-> TRUE]}
           ELSE IF g.found = "creating" THEN {[cloud |-> g.cloud, done |-> FALSE, err |-> FALSE]}
           ELSE anexiaDeprovision(g.cloud) : g \in anexiaGet(c)}

Create(c) ==
    CASE c.provider = "digitalocean" -> digitaloceanCreate(c)
      [] c.provider = "gce"          -> gceCreate(c)
      [] OTHER                       -> anexiaCreate(c)

Cleanup(c) ==
    CASE c.provider = "digitalocean" -> digitaloceanCleanup(c)
      [] c.provider = "gce"          -> gceCleanup(c)
      [] OTHER                       -> anexiaCleanup(c)

\* the cloud finishes a deletion it has accepted; an anexia task may fail
CloudSteps(c) ==
    (IF c.provider # "anexia" /\ c.terminating > 0
     THEN {[c EXCEPT !.instances = @ - 1, !.terminating = @ - 1]} ELSE {})
    \cup (IF c.provider = "anexia" /\ c.task = "running"
          THEN {[c EXCEPT !.instances = @ - 1, !.task = "done"], [c EXCEPT !.task = "failed"]}
          ELSE {})

InitProvider ==
    /\ \E p \in Providers : cloud = NoCloud(p)
    /\ ret = [op |-> "none", done |-> FALSE, err |-> FALSE]
    /\ creates = 0
    /\ d = "idle" /\ ms = "idle" /\ created = "idle" /\ machines = "idle" /\ changes = 0
    /\ DeleteIdle /\ CSRIdle /\ MachineIdle /\ UnitsIdle

ProviderCreate ==
    /\ creates < MaxCreateCalls
    /\ \E o \in Create(cloud) :
          /\ cloud' = o.cloud
          /\ ret' = [op |-> "Create", done |-> FALSE, err |-> o.err]
    /\ creates' = creates + 1
    /\ UNCHANGED <<rolloutVars, deleteVars, csrVars, machineVars, unitVars>>

ProviderCleanup ==
    /\ \E o \in Cleanup(cloud) :
          /\ cloud' = o.cloud
          /\ ret' = [op |-> "Cleanup", done |-> o.done, err |-> o.err]
    /\ UNCHANGED creates
    /\ UNCHANGED <<rolloutVars, deleteVars, csrVars, machineVars, unitVars>>

CloudProgress ==
    /\ \E c \in CloudSteps(cloud) : cloud' = c
    /\ UNCHANGED <<ret, creates>>
    /\ UNCHANGED <<rolloutVars, deleteVars, csrVars, machineVars, unitVars>>

NextProvider == ProviderCreate \/ ProviderCleanup \/ CloudProgress

SpecProvider == InitProvider /\ [][NextProvider]_vars

\* C5 (idempotent Create): however often Create is called for a Machine, at
\* most one cloud instance carries its UID.
IdempotentCreate == Instances(cloud) <= 1

\* C6 (Cleanup completion): Cleanup returns done = true only when no cloud
\* instance of the Machine exists any more, not even one that the provider
\* can find; a failed deletion task returns done = false.
CleanupCompletion == (ret.op = "Cleanup" /\ ret.done) => cloud.instances = 0

(***************************************************************************)
(* Machine controller: deletion of a Machine                               *)
(*                                                                         *)
(* mach.pc is the position of the deletion path inside one reconcile:      *)
(* "idle" between reconciles, "deleteNode" after Cleanup reported the      *)
(* instance gone, "removeFinalizer" after the Node was deleted.  A restart *)
(* of the controller loses the position, never the stored objects.         *)
(* mach.cleanupDone records that a Cleanup of this deletion returned       *)
(* (true, nil).                                                            *)
(***************************************************************************)
NodeRefs == {"none", "node", "missing"}

Nodes == {n \in [exists : BOOLEAN, labelled : BOOLEAN] : n.labelled => n.exists}

\* states of the cloud that a Machine with a finalizer can be in
MachineClouds ==
    {[NoCloud("digitalocean") EXCEPT !.instances = i] : i \in 0..MaxCreateCalls}
    \cup {[NoCloud("gce") EXCEPT !.instances = i] : i \in 0..1}
    \cup {[NoCloud("anexia") EXCEPT !.untracked = u] : u \in 0..1}
    \cup {[NoCloud("anexia") EXCEPT !.instances = 1, !.untracked = u,
                                    !.status.provisioningID = TRUE,
                                    !.status.instanceID = known] :
             u \in 0..1, known \in BOOLEAN}

InitMachine ==
    /\ cloud \in MachineClouds
    /\ \E ref \in NodeRefs, n \in Nodes :
          /\ ref = "node" => n.exists
          /\ ref = "missing" => ~n.labelled
          /\ mach = [deletionTimestamp |-> FALSE, finalizer |-> TRUE, nodeRef |-> ref,
                     node |-> n, cleanupDone |-> FALSE, pc |-> "idle"]
    /\ ret = "idle" /\ creates = 0
    /\ d = "idle" /\ ms = "idle" /\ created = "idle" /\ machines = "idle" /\ changes = 0
    /\ DeleteIdle /\ CSRIdle /\ UnitsIdle

\* the user deletes the Machine: the API server sets the deletion timestamp
MachineDelete ==
    /\ ~mach.deletionTimestamp
    /\ mach' = [mach EXCEPT !.deletionTimestamp = TRUE]
    /\ UNCHANGED <<cloud, ret, creates, rolloutVars, deleteVars, csrVars, unitVars>>

\* the node the deletion path removes: by nodeRef name, else by owner label
deleteNodeForMachine(m) ==
    IF m.nodeRef = "node" THEN [m.node EXCEPT !.exists = FALSE, !.labelled = FALSE]
    ELSE IF m.nodeRef = "missing" THEN m.node
    ELSE IF m.node.labelled THEN [m.node EXCEPT !.exists = FALSE, !.labelled = FALSE]
    ELSE m.node

\* Cleanup of the provider; an error or done = false requeues
DeletionCleanup ==
    /\ mach.deletionTimestamp /\ mach.finalizer /\ mach.pc = "idle"
    /\ \E o \in Cleanup(cloud) :
          /\ cloud' = o.cloud
          /\ mach' = IF ~o.err /\ o.done
                     THEN [mach EXCEPT !.cleanupDone = TRUE, !.pc = "deleteNode"]
                     ELSE mach
    /\ UNCHANGED <<ret, creates, rolloutVars, deleteVars, csrVars, unitVars>>

\* delete the Node; a listing or delete error requeues
DeletionDeleteNode ==
    /\ mach.pc = "deleteNode"
    /\ \/ mach' = [mach EXCEPT !.node = deleteNodeForMachine(mach), !.pc = "removeFinalizer"]
       \/ mach' = [mach EXCEPT !.pc = "idle"]
    /\ UNCHANGED <<cloud, ret, creates, rolloutVars, deleteVars, csrVars, unitVars>>

\* remove the finalizer; an update conflict requeues
DeletionRemoveFinalizer ==
    /\ mach.pc = "removeFinalizer"
    /\ \/ mach' = [mach EXCEPT !.finalizer = FALSE, !.pc = "idle"]
       \/ mach' = [mach EXCEPT !.pc = "idle"]
    /\ UNCHANGED <<cloud, ret, creates, rolloutVars, deleteVars, csrVars, unitVars>>

\* the controller crashes and restarts between two steps
ControllerRestart ==
    /\ mach.pc # "idle"
    /\ mach' = [mach EXCEPT !.pc = "idle"]
    /\ UNCHANGED <<cloud, ret, creates, rolloutVars, deleteVars, csrVars, unitVars>>

MachineCloudProgress ==
    /\ \E c \in CloudSteps(cloud) : cloud' = c
    /\ UNCHANGED <<mach, ret, creates, rolloutVars, deleteVars, csrVars, unitVars>>

NextMachine ==
    \/ MachineDelete
    \/ DeletionCleanup
    \/ DeletionDeleteNode
    \/ DeletionRemoveFinalizer
    \/ ControllerRestart
    \/ MachineCloudProgress

SpecMachine == InitMachine /\ [][NextMachine]_vars

NodeOfMachineGone == ~mach.node.exists \/ (mach.nodeRef # "node" /\ ~mach.node.labelled)

HashRange == 2              \* template hashes range over 1..HashRange

exceptNms == <<stackVars, cfg, occ, mset, evi, join, cln, pureVars>>

Names == 1..HashRange
CreateTemplates == 1..(HashRange + 1)

NoObject == [exists |-> FALSE, owner |-> "none", template |-> 0]

ComputeHash(template) == (template % HashRange) + 1

\* a name that is generated anew for every create call
machineSetNameGenerated(dep, store) ==
    IF \E n \in Names : ~store[n].exists
    THEN CHOOSE n \in Names : ~store[n].exists
    ELSE ComputeHash(dep.template)

\* d.Name + "-" + SafeEncodeString(hash of the template)
machineSetName(dep, store) == ComputeHash(dep.template)

\* the controller reference is the deployment and the templates are equal
\* ignoring the hash label
IsNewMachineSetOf(dep, obj) ==
    obj.exists /\ obj.owner = "deployment" /\ obj.template = dep.template

\* getNewMachineSet with createIfNotExisted = true, the MachineSets listed
\* from the cache; returns the store, the deployment and what happened
createNewMachineSet(dep, store, cache) ==
    IF \E n \in cache : IsNewMachineSetOf(dep, store[n])
    THEN [store |-> store, dep |-> dep, result |-> "existing",
          name |-> CHOOSE n \in cache : IsNewMachineSetOf(dep, store[n])]
    ELSE LET name == machineSetName(dep, store)
         IN IF store[name].exists
            THEN IF IsNewMachineSetOf(dep, store[name])
                 THEN [store |-> store, dep |-> dep, result |-> "adopted", name |-> name]
                 ELSE [store |-> store, dep |-> dep, result |-> "collision", name |-> name]
            ELSE [store |-> [store EXCEPT ![name] =
                                [exists |-> TRUE, owner |-> "deployment",
                                 template |-> dep.template]],
                  dep |-> dep, result |-> "created", name |-> name]

InitCreate ==
    /\ \E t \in CreateTemplates, foreign \in {0} \cup Names, ft \in CreateTemplates :
          nms = [store |-> [n \in Names |->
                              IF n = foreign
                              THEN [exists |-> TRUE, owner |-> "other", template |-> ft]
                              ELSE NoObject],
                 cache |-> {},
                 dep |-> [template |-> t, collisionCount |-> 0],
                 last |-> "none", name |-> 0]
    /\ cfg = "idle" /\ occ = "idle" /\ mset = "idle" /\ evi = "idle" /\ join = "idle" /\ cln = "idle"
    /\ StackIdle /\ PureIdle

\* one reconcile of the deployment up to getNewMachineSet
CreateReconcile ==
    /\ \E r \in {createNewMachineSet(nms.dep, nms.store, nms.cache)} :
          nms' = [nms EXCEPT !.store = r.store, !.dep = r.dep,
                             !.last = r.result, !.name = r.name]
    /\ UNCHANGED exceptNms

\* the informer delivers one more MachineSet of the deployment to the cache
CacheSync ==
    /\ \E n \in Names \ nms.cache :
          /\ nms.store[n].exists /\ nms.store[n].owner = "deployment"
          /\ nms' = [nms EXCEPT !.cache = @ \cup {n}]
    /\ UNCHANGED exceptNms

\* the user changes the machine template of the deployment
CreateTemplateChange ==
    /\ \E t \in CreateTemplates \ {nms.dep.template} :
          nms' = [nms EXCEPT !.dep.template = t, !.last = "none", !.name = 0]
    /\ UNCHANGED exceptNms

NextCreate == CreateReconcile \/ CacheSync \/ CreateTemplateChange

SpecCreate == InitCreate /\ [][NextCreate]_vars

\* C11 (hash collision recovery): a reconcile whose create failed with
\* AlreadyExists on a MachineSet that is not the deployment's new MachineSet
\* has incremented status.collisionCount.
CollisionCounted == nms.last = "collision" => nms.dep.collisionCount > 0

MachineSetsOfTemplate(t) ==
    {n \in Names : nms.store[n].exists /\ nms.store[n].owner = "deployment"
                   /\ nms.store[n].template = t}

\* C12 (idempotent creation): however often the create path runs, at most one
\* MachineSet of the deployment exists for a template, and a run that got
\* AlreadyExists on the deployment's own MachineSet returns that MachineSet.
NewMachineSetCreatedOnce ==
    /\ \A t \in CreateTemplates : Cardinality(MachineSetsOfTemplate(t)) <= 1
    /\ nms.last = "adopted" => MachineSetsOfTemplate(nms.dep.template) = {nms.name}

NewMachineSetCreatedOnceWitness ==
    /\ nms.last = "adopted"
    /\ nms.name \notin nms.cache
    /\ MachineSetsOfTemplate(nms.dep.template) = {nms.name}

(***************************************************************************)
(* Config variable resolver (GetStringValue, GetBoolValue and the OrEnv    *)
(* variants)                                                               *)
(*                                                                         *)
(* A reference is the state of what it points to: "unset", "partial" (one  *)
(* of name, namespace, key is empty), "missing" (the object cannot be      *)
(* fetched), "nokey", "empty" (the key holds ""), "set" and "garbage" (a   *)
(* value that is no boolean).  A Secret holds "1", a ConfigMap "0", so     *)
(* that the source of a result can be told from the result.                *)
(***************************************************************************)
exceptCfg == <<stackVars, nms, occ, mset, evi, join, cln, pureVars>>

RefStates == {"unset", "partial", "missing", "nokey", "empty", "set", "garbage"}

\* all three of name, namespace and key are given
RefComplete(ref) == ref \notin {"unset", "partial"}

\* the data under the key of a Secret ("1") or ConfigMap ("0")
RefData(ref, set) == IF ref = "empty" THEN "" ELSE IF ref = "garbage" THEN "x" ELSE set

\* strconv.ParseBool
ParseBool(str) ==
    IF str \in {"1", "t", "T", "true", "TRUE", "True"} THEN [val |-> TRUE, err |-> FALSE]
    ELSE IF str \in {"0", "f", "F", "false", "FALSE", "False"} THEN [val |-> FALSE, err |-> FALSE]
    ELSE [val |-> FALSE, err |-> TRUE]

\* a resolver that returns the literal value when one is set
GetStringValueLiteralFirst(configVar) ==
    IF configVar.value # ""
    THEN [val |-> configVar.value, err |-> FALSE]
    ELSE IF RefComplete(configVar.secretKeyRef)
    THEN IF configVar.secretKeyRef \in {"missing", "nokey"}
         THEN [val |-> "", err |-> TRUE]
         ELSE [val |-> RefData(configVar.secretKeyRef, "1"), err |-> FALSE]
    ELSE IF RefComplete(configVar.configMapKeyRef)
    THEN IF configVar.configMapKeyRef \in {"missing", "nokey"}
         THEN [val |-> "", err |-> TRUE]
         ELSE [val |-> RefData(configVar.configMapKeyRef, "0"), err |-> FALSE]
    ELSE [val |-> configVar.value, err |-> FALSE]

GetStringValue(configVar) ==
    IF RefComplete(configVar.secretKeyRef)
    THEN IF configVar.secretKeyRef \in {"missing", "nokey"}
         THEN [val |-> "", err |-> TRUE]
         ELSE [val |-> RefData(configVar.secretKeyRef, "1"), err |-> FALSE]
    ELSE IF RefComplete(configVar.configMapKeyRef)
    THEN IF configVar.configMapKeyRef \in {"missing", "nokey"}
         THEN [val |-> "", err |-> TRUE]
         ELSE [val |-> RefData(configVar.configMapKeyRef, "0"), err |-> FALSE]
    ELSE [val |-> configVar.value, err |-> FALSE]

\* os.LookupEnv: the value, "" when the variable is unset
LookupEnv(env) == IF env = "unset" THEN "" ELSE env

\* a fallback that hands on the error of GetStringValue
GetStringValueOrEnvPropagate(configVar, env) ==
    LET r == GetStringValue(configVar)
    IN IF r.err THEN [val |-> "", err |-> TRUE]
       ELSE IF r.val # "" THEN [val |-> r.val, err |-> FALSE]
       ELSE [val |-> LookupEnv(env), err |-> FALSE]

GetStringValueOrEnv(configVar, env) ==
    LET r == GetStringValue(configVar)
    IN IF ~r.err /\ r.val # ""
       THEN [val |-> r.val, err |-> FALSE]
       ELSE [val |-> LookupEnv(env), err |-> FALSE]

\* returns the boolean, whether a valid source was found, and the error
GetBoolValue(configVar) ==
    IF RefComplete(configVar.secretKeyRef)
    THEN IF configVar.secretKeyRef \in {"missing", "nokey"}
         THEN [val |-> FALSE, valid |-> FALSE, err |-> TRUE]
         ELSE LET p == ParseBool(RefData(configVar.secretKeyRef, "1"))
              IN [val |-> p.val, valid |-> ~p.err, err |-> p.err]
    ELSE IF RefComplete(configVar.configMapKeyRef)
    THEN IF configVar.configMapKeyRef \in {"missing", "nokey"}
         THEN [val |-> FALSE, valid |-> FALSE, err |-> TRUE]
         ELSE LET p == ParseBool(RefData(configVar.configMapKeyRef, "0"))
              IN [val |-> p.val, valid |-> ~p.err, err |-> p.err]
    ELSE IF configVar.value = "nil"
    THEN [val |-> FALSE, valid |-> FALSE, err |-> FALSE]
    ELSE [val |-> configVar.value = "true", valid |-> TRUE, err |-> FALSE]

GetBoolValueOrEnv(configVar, env) ==
    LET r == GetBoolValue(configVar)
    IN IF r.valid /\ ~r.err
       THEN [val |-> r.val, err |-> FALSE]
       ELSE IF env # "unset"
       THEN LET p == ParseBool(env)
            IN IF p.err THEN [val |-> FALSE, err |-> TRUE] ELSE [val |-> p.val, err |-> FALSE]
       ELSE [val |-> FALSE, err |-> FALSE]

ConfigVarStrings ==
    [kind : {"string"}, value : {"", "t"}, secretKeyRef : RefStates, configMapKeyRef : RefStates]
ConfigVarBools ==
    [kind : {"bool"}, value : {"nil", "true", "false"},
     secretKeyRef : RefStates, configMapKeyRef : RefStates]
EnvValues == {"unset", "", "T", "x"}

InitResolver ==
    /\ \E c \in ConfigVarStrings \cup ConfigVarBools, e \in EnvValues :
          cfg = [var |-> c, env |-> e, done |-> FALSE, val |-> "", err |-> FALSE]
    /\ nms = "idle" /\ occ = "idle" /\ mset = "idle" /\ evi = "idle" /\ join = "idle" /\ cln = "idle"
    /\ StackIdle /\ PureIdle

\* the provider resolves the field, falling back to the environment
Resolve ==
    /\ ~cfg.done
    /\ \E r \in {IF cfg.var.kind = "string"
                 THEN GetStringValueOrEnv(cfg.var, cfg.env)
                 ELSE LET b == GetBoolValueOrEnv(cfg.var, cfg.env)
                      IN [val |-> IF b.val THEN "true" ELSE "false", err |-> b.err]} :
          cfg' = [cfg EXCEPT !.done = TRUE, !.val = r.val, !.err = r.err]
    /\ UNCHANGED exceptCfg

NextResolver == Resolve

SpecResolver == InitResolver /\ [][NextResolver]_vars

\* C13 as stated: the literal value wins when it is set, whatever the
\* references are.
ResolutionLiteralFirst ==
    cfg.done =>
        /\ (cfg.var.kind = "string" /\ cfg.var.value # "")
              => (cfg.val = cfg.var.value /\ ~cfg.err)
        /\ (cfg.var.kind = "bool" /\ cfg.var.value # "nil")
              => (cfg.val = cfg.var.value /\ ~cfg.err)

\* the source the resolver reads: the Secret when its reference is complete,
\* else the ConfigMap when its reference is complete, else the literal
SourceOf(c) ==
    IF RefComplete(c.secretKeyRef) THEN "secret"
    ELSE IF RefComplete(c.configMapKeyRef) THEN "configmap"
    ELSE "literal"
SourceRef(c) == IF SourceOf(c) = "secret" THEN c.secretKeyRef ELSE c.configMapKeyRef

\* C13 as the code has it: a complete secretKeyRef is read first, else a
\* complete configMapKeyRef, else the literal value; the first complete
\* reference decides alone, and the environment variable is used when that
\* source fails, is empty (string) or is no boolean (bool).
ResolutionReferenceFirst ==
    cfg.done =>
        /\ (cfg.var.kind = "string" /\ SourceOf(cfg.var) = "secret"
            /\ cfg.var.secretKeyRef \in {"set", "garbage"})
              => cfg.val = RefData(cfg.var.secretKeyRef, "1")
        /\ (cfg.var.kind = "string" /\ SourceOf(cfg.var) = "configmap"
            /\ cfg.var.configMapKeyRef \in {"set", "garbage"})
              => cfg.val = RefData(cfg.var.configMapKeyRef, "0")
        /\ (cfg.var.kind = "string" /\ SourceOf(cfg.var) = "literal" /\ cfg.var.value # "")
              => cfg.val = cfg.var.value
        /\ (cfg.var.kind = "string"
            /\ \/ SourceOf(cfg.var) # "literal"
                  /\ SourceRef(cfg.var) \in {"missing", "nokey", "empty"}
               \/ SourceOf(cfg.var) = "literal" /\ cfg.var.value = "")
              => cfg.val = LookupEnv(cfg.env)
        /\ cfg.var.kind = "string" => ~cfg.err
        /\ (cfg.var.kind = "bool" /\ SourceOf(cfg.var) = "secret"
            /\ cfg.var.secretKeyRef = "set")
              => (cfg.val = "true" /\ ~cfg.err)
        /\ (cfg.var.kind = "bool" /\ SourceOf(cfg.var) = "configmap"
            /\ cfg.var.configMapKeyRef = "set")
              => (cfg.val = "false" /\ ~cfg.err)
        /\ (cfg.var.kind = "bool" /\ SourceOf(cfg.var) = "literal" /\ cfg.var.value # "nil")
              => (cfg.val = cfg.var.value /\ ~cfg.err)
        /\ (cfg.var.kind = "bool"
            /\ \/ SourceOf(cfg.var) # "literal" /\ SourceRef(cfg.var) # "set"
               \/ SourceOf(cfg.var) = "literal" /\ cfg.var.value = "nil")
              => /\ cfg.env = "T" => (cfg.val = "true" /\ ~cfg.err)
                 /\ cfg.env = "unset" => (cfg.val = "false" /\ ~cfg.err)
                 /\ cfg.env \in {"", "x"} => cfg.err

\* a field with a literal value and a complete secretKeyRef has resolved to
\* the value of the Secret
ResolutionReferenceFirstWitness ==
    /\ cfg.done
    /\ cfg.var.kind = "string" /\ cfg.var.value = "t" /\ cfg.var.secretKeyRef = "set"
    /\ cfg.val = "1"

(***************************************************************************)
(* Overlapping reconciles writing one MachineSet                           *)
(*                                                                         *)
(* occ.obj is the MachineSet in the API server with its resourceVersion.   *)
(* Each reconcile holds the copy it read (possibly stale by the time it    *)
(* writes), the replicas it computed, and the outcome of its write.        *)
(***************************************************************************)
MaxScale == 2               \* spec.replicas of the MachineSet ranges over 0..MaxScale
MaxWrites == 2              \* successful writes to the MachineSet in one behaviour

exceptOcc == <<stackVars, nms, cfg, mset, evi, join, cln, pureVars>>

Reconciles == {1, 2}

\* an Update that the API server accepts whatever resourceVersion it carries
UpdateUnguarded(obj, observed, newScale) ==
    [obj |-> [replicas |-> newScale, resourceVersion |-> obj.resourceVersion + 1],
     outcome |-> "ok"]

\* r.Update(ctx, ms): the API server accepts the write only if the object
\* still has the resourceVersion of the copy that is written back
Update(obj, observed, newScale) ==
    IF observed.resourceVersion = obj.resourceVersion
    THEN [obj |-> [replicas |-> newScale, resourceVersion |-> obj.resourceVersion + 1],
          outcome |-> "ok"]
    ELSE [obj |-> obj, outcome |-> "conflict"]

\* scaleMachineSetOperation on the copy the reconcile read
scaleMachineSetOperation(obj, observed, newScale, annotationsNeedUpdate) ==
    IF observed.replicas # newScale \/ annotationsNeedUpdate
    THEN Update(obj, observed, newScale)
    ELSE [obj |-> obj, outcome |-> "noop"]

IdleReconcile ==
    [pc |-> "idle", resourceVersion |-> 0, replicas |-> 0, newScale |-> 0, outcome |-> "none"]

InitConflict ==
    /\ \E n \in 0..MaxScale :
          occ = [obj |-> [replicas |-> n, resourceVersion |-> 1],
                 rec |-> [i \in Reconciles |-> IdleReconcile]]
    /\ nms = "idle" /\ cfg = "idle" /\ mset = "idle" /\ evi = "idle" /\ join = "idle" /\ cln = "idle"
    /\ StackIdle /\ PureIdle

\* a reconcile lists the MachineSet and computes the replicas it wants
ReconcileRead(i) ==
    /\ occ.rec[i].pc # "read"
    /\ \E n \in 0..MaxScale :
          occ' = [occ EXCEPT !.rec[i] =
                     [pc |-> "read", resourceVersion |-> occ.obj.resourceVersion,
                      replicas |-> occ.obj.replicas, newScale |-> n, outcome |-> "none"]]
    /\ UNCHANGED exceptOcc

\* the reconcile writes the MachineSet back
ReconcileWrite(i) ==
    /\ occ.rec[i].pc = "read"
    /\ occ.obj.resourceVersion <= MaxWrites
    /\ \E annotationsNeedUpdate \in BOOLEAN :
       \E w \in {scaleMachineSetOperation(occ.obj, occ.rec[i], occ.rec[i].newScale,
                                          annotationsNeedUpdate)} :
          occ' = [occ EXCEPT !.obj = w.obj,
                             !.rec[i].pc = "done", !.rec[i].outcome = w.outcome]
    /\ UNCHANGED exceptOcc

NextConflict == \E i \in Reconciles : ReconcileRead(i) \/ ReconcileWrite(i)

SpecConflict == InitConflict /\ [][NextConflict]_vars

MaxPausedReplicas == 3      \* spec.replicas of a MachineSet ranges over 0..MaxPausedReplicas

\* a / b rounded to the nearest integer, halves away from zero (b > 0)
RoundDiv(a, b) ==
    IF a >= 0 THEN (2 * a + b) \div (2 * b) ELSE -((2 * (-a) + b) \div (2 * b))

\* the MachineSets of sets that exist and have spec.replicas > 0 (0 is nil)
FilterActiveMachineSets(msf, sets) ==
    SelectSeq(sets, LAMBDA t : t # 0 /\ msf[t].replicas > 0)

\* the only active MachineSet; with no active one the new MachineSet or else
\* the latest old one; 0 (nil) with several active ones or none at all
FindOneActiveOrLatest(msf, newMS, oldMSs) ==
    LET active == FilterActiveMachineSets(msf, Append(oldMSs, newMS))
    IN IF newMS = 0 /\ oldMSs = <<>> THEN 0
       ELSE IF Len(active) = 0
            THEN IF newMS # 0 THEN newMS ELSE oldMSs[Len(oldMSs)]
       ELSE IF Len(active) = 1 THEN active[1]
       ELSE 0

\* the new MachineSet has reached D: spec.replicas and availableReplicas
IsSaturated(dep, msf, newMS) ==
    /\ newMS # 0
    /\ msf[newMS].replicas = dep.replicas
    /\ msf[newMS].availableReplicas = dep.replicas

\* the share of deploymentReplicasToAdd of a MachineSet with the given
\* replicas: round(toAdd * replicas / total), never beyond what is left to add
GetProportion(replicas, deploymentReplicasToAdd, deploymentReplicasAdded, total) ==
    IF replicas = 0 \/ deploymentReplicasToAdd = 0
       \/ deploymentReplicasToAdd = deploymentReplicasAdded
    THEN 0
    ELSE LET fraction == RoundDiv(deploymentReplicasToAdd * replicas, total)
             allowed == deploymentReplicasToAdd - deploymentReplicasAdded
         IN IF deploymentReplicasToAdd > 0 THEN Min(fraction, allowed)
            ELSE Max(fraction, allowed)

\* the first loop of the proportional branch over allMSs[1..k]:
\* nameToSize (as a sequence) and deploymentReplicasAdded
RECURSIVE nameToSize(_, _, _, _, _)
nameToSize(msf, allMSs, deploymentReplicasToAdd, total, k) ==
    IF k = 0 THEN [size |-> <<>>, added |-> 0]
    ELSE LET prev == nameToSize(msf, allMSs, deploymentReplicasToAdd, total, k - 1)
             replicas == msf[allMSs[k]].replicas
             proportion == IF deploymentReplicasToAdd # 0
                           THEN GetProportion(replicas, deploymentReplicasToAdd,
                                              prev.added, total)
                           ELSE 0
         IN [size |-> Append(prev.size, replicas + proportion),
             added |-> prev.added + proportion]

\* the proportional branch without its second loop: no MachineSet takes the
\* leftover
proportionalSizesNoLeftover(msf, allMSs, allowedSize) ==
    nameToSize(msf, allMSs, allowedSize - GetReplicaCountForMachineSets(msf, allMSs),
               GetReplicaCountForMachineSets(msf, allMSs), Len(allMSs)).size

\* the proportional branch: the sizes of the first loop, and in the second
\* loop the leftover goes to the first MachineSet of the list, not below 0
proportionalSizes(msf, allMSs, allowedSize) ==
    LET totalMSReplicas == GetReplicaCountForMachineSets(msf, allMSs)
        deploymentReplicasToAdd == allowedSize - totalMSReplicas
        first == nameToSize(msf, allMSs, deploymentReplicasToAdd,
                            totalMSReplicas, Len(allMSs))
        leftover == deploymentReplicasToAdd - first.added
    IN [i \in 1..Len(allMSs) |->
           IF i = 1 /\ deploymentReplicasToAdd # 0
           THEN Max(0, first.size[i] + leftover)
           ELSE first.size[i]]

\* scale: the single active (or latest) MachineSet goes to D; a saturated new
\* MachineSet sends the active old ones to 0; otherwise the difference to
\* D + maxSurge is spread over the active MachineSets
scale(dep, msf, crt, newMS) ==
    LET oldMSs == FindOldMachineSets(dep, crt)
        activeOrLatest == FindOneActiveOrLatest(msf, newMS, oldMSs)
    IN IF activeOrLatest # 0
       THEN scaleMachineSet(msf, activeOrLatest, dep.replicas)
       ELSE IF IsSaturated(dep, msf, newMS)
       THEN LET active == Range(FilterActiveMachineSets(msf, oldMSs))
            IN [t \in Templates |->
                   IF t \in active THEN scaleMachineSet(msf, t, 0)[t] ELSE msf[t]]
       ELSE LET allMSs == FilterActiveMachineSets(msf, Append(oldMSs, newMS))
                allowedSize == IF dep.replicas > 0 THEN dep.replicas + MaxSurge(dep) ELSE 0
                size == proportionalSizes(msf, allMSs, allowedSize)
            IN [t \in Templates |->
                   IF t \in Range(allMSs)
                   THEN scaleMachineSet(msf, t, size[IndexOf(allMSs, t)])[t]
                   ELSE msf[t]]

\* a getNewMachineSet that ignores createIfNotExisted and creates the missing
\* new MachineSet
getNewMachineSetAlwaysCreate(dep, msf, crt) == getNewMachineSet(dep, msf, crt)

\* getNewMachineSet with createIfNotExisted = false: a missing new MachineSet
\* stays missing (nil)
getNewMachineSetIfExists(dep, msf, crt) ==
    IF FindNewMachineSet(dep, msf) = 0
    THEN [ms |-> msf, created |-> crt, dep |-> dep, newMS |-> 0]
    ELSE getNewMachineSet(dep, msf, crt)

\* a paused deployment with any MachineSets of any size
InitPaused ==
    /\ \E s \in Strategies, t0 \in Templates, crt \in CreationOrders,
          rep \in [Templates -> 0..MaxPausedReplicas] :
        /\ \A t \in Templates : t \notin Range(crt) => rep[t] = 0
        /\ d = [replicas |-> s.replicas, template |-> t0, revision |-> 0,
                maxSurge |-> s.maxSurge, maxUnavailable |-> s.maxUnavailable,
                revisionHistoryLimit |-> s.revisionHistoryLimit]
        /\ ms = [t \in Templates |->
                    IF t \in Range(crt)
                    THEN [exists |-> TRUE, replicas |-> rep[t], revision |-> IndexOf(crt, t),
                          availableReplicas |-> 0, statusReplicas |-> 0, observed |-> FALSE,
                          deletionTimestamp |-> FALSE]
                    ELSE NoMS]
        /\ created = crt
    /\ machines = [t \in Templates |-> NoMachines]
    /\ changes = 0
    /\ DeleteIdle /\ CSRIdle /\ ProviderIdle /\ MachineIdle /\ UnitsIdle

\* sync: one reconcile of the paused deployment
SyncPaused ==
    \E g \in {getNewMachineSetIfExists(d, ms, created)} :
    \E scaled \in {scale(g.dep, g.ms, g.created, g.newMS)} :
       /\ d' = g.dep
       /\ ms' = scaled
       /\ created' = g.created
       /\ UNCHANGED <<machines, changes>>
       /\ UNCHANGED <<deleteVars, csrVars, providerVars, machineVars, unitVars>>

\* the user scales the paused deployment
ScaleDeployment(n) ==
    /\ changes < MaxChanges
    /\ n # d.replicas
    /\ d' = [d EXCEPT !.replicas = n]
    /\ changes' = changes + 1
    /\ UNCHANGED <<ms, created, machines>>
    /\ UNCHANGED <<deleteVars, csrVars, providerVars, machineVars, unitVars>>

NextPaused ==
    \/ SyncPaused
    \/ \E n \in 0..MaxReplicas : ScaleDeployment(n)
    \/ \E t \in Templates : TemplateChange(t)
    \/ \E t \in Templates : StatusChange(t)

SpecPaused == InitPaused /\ [][NextPaused]_vars

\* some MachineSet has a smaller spec.replicas after the step
SomeReplicasLowered == \E t \in Templates : ms[t].exists /\ ms'[t].replicas < ms[t].replicas

NoMachineSetCreated == \A t \in Templates : ms'[t].exists => ms[t].exists

\* C15 as stated: while the deployment is paused, no step creates a
\* MachineSet and no step lowers the spec.replicas of a MachineSet.
PausedSyncNeverLowers == [][NoMachineSetCreated /\ ~SomeReplicasLowered]_vars

\* C15 (paused sync): while the deployment is paused, a sync creates no
\* MachineSet; it lowers the spec.replicas of a MachineSet only when the
\* spec.replicas of the deployment's MachineSets sum to more than D, and it
\* leaves that sum at D or more.
PausedSyncScalesOnly ==
    [][/\ NoMachineSetCreated
       /\ SomeReplicasLowered =>
            /\ TotalReplicas > d.replicas
            /\ TotalReplicas' >= d.replicas]_vars

\* the new MachineSet is missing and has not been created, while an old
\* MachineSet whose status had been written was scaled to 0 by a sync
PausedSyncScalesOnlyWitness ==
    /\ ~ms[d.template].exists
    /\ \E t \in Templates :
        /\ ms[t].exists /\ ms[t].replicas = 0
        /\ ms[t].statusReplicas > 0 /\ ~ms[t].observed


(***************************************************************************)
(* MachineDeployment controller: cleanup of the revision history           *)
(***************************************************************************)
MaxOldMachineSets == 3      \* cleanupDeployment gets 0..MaxOldMachineSets old MachineSets

exceptCln == <<stackVars, nms, cfg, occ, mset, evi, join, pureVars>>

\* MachineSets 1..MaxOldMachineSets are old, in ascending creationTimestamp;
\* NewSet is the new MachineSet of the complete deployment
OldSets == 1..MaxOldMachineSets
NewSet == MaxOldMachineSets + 1

\* what cleanupDeployment reads of an old MachineSet
OldMachineSets ==
    [exists : {TRUE}, replicas : 0..1, revision : {0}, availableReplicas : {0},
     statusReplicas : 0..1, observed : BOOLEAN, deletionTimestamp : BOOLEAN]

InitCleanup ==
    /\ \E n \in 0..MaxOldMachineSets, limit \in 0..MaxHistoryLimit,
          old \in [OldSets -> OldMachineSets] :
        /\ \A t \in OldSets : t > n => old[t] = CHOOSE o \in OldMachineSets : TRUE
        /\ cln = [dep |-> [template |-> NewSet, revisionHistoryLimit |-> limit],
                  before |-> [t \in 1..NewSet |->
                                 IF t = NewSet
                                 THEN [NoMS EXCEPT !.exists = TRUE, !.replicas = 1,
                                                   !.availableReplicas = 1,
                                                   !.statusReplicas = 1]
                                 ELSE IF t <= n THEN old[t] ELSE NoMS],
                  created |-> [j \in 1..(n + 1) |-> IF j = n + 1 THEN NewSet ELSE j],
                  after |-> <<>>,
                  done |-> FALSE]
    /\ StackIdle /\ PureIdle
    /\ nms = "idle" /\ cfg = "idle" /\ occ = "idle"
    /\ mset = "idle" /\ evi = "idle" /\ join = "idle"

\* the complete deployment cleans up its old MachineSets
CleanupDeployment ==
    /\ ~cln.done
    /\ \E c \in {cleanupDeployment(cln.dep, cln.before, cln.created,
                                   FindOldMachineSets(cln.dep, cln.created))} :
          cln' = [cln EXCEPT !.after = c.ms, !.done = TRUE]
    /\ UNCHANGED exceptCln

NextCleanup == CleanupDeployment

SpecCleanup == InitCleanup /\ [][NextCleanup]_vars

\* the old MachineSets before the cleanup, oldest first
CleanupOld == FindOldMachineSets(cln.dep, cln.created)

Eligible(o) ==
    /\ o.exists /\ ~o.deletionTimestamp
    /\ o.statusReplicas = 0 /\ o.replicas = 0 /\ o.observed

EligibleBefore == {t \in Range(CleanupOld) : Eligible(cln.before[t])}
Deleted == {t \in Range(CleanupOld) : ~cln.after[t].exists}
\* old MachineSets without deletionTimestamp that are newer than t
NewerAlive(t) == {u \in Range(CleanupOld) : u > t /\ ~cln.before[u].deletionTimestamp}

\* C16 as stated: after cleanupDeployment exactly the oldest eligible old
\* MachineSets are gone, as many as it takes to leave at most
\* revisionHistoryLimit eligible ones, and no ineligible one is gone.
CleanupUntilLimit ==
    cln.done =>
        Deleted = {t \in EligibleBefore :
                      Cardinality({u \in EligibleBefore : u >= t})
                          > cln.dep.revisionHistoryLimit}

\* C16 (revision-history cleanup): after cleanupDeployment no ineligible old
\* MachineSet is gone, at most revisionHistoryLimit eligible ones remain, and
\* an eligible old MachineSet is gone exactly if at least revisionHistoryLimit
\* old MachineSets without deletionTimestamp are newer than it.
CleanupBeyondLimit ==
    cln.done =>
        /\ Deleted \subseteq EligibleBefore
        /\ Cardinality(EligibleBefore \ Deleted) <= cln.dep.revisionHistoryLimit
        /\ \A t \in EligibleBefore :
              t \in Deleted <=> Cardinality(NewerAlive(t)) >= cln.dep.revisionHistoryLimit

\* a cleanup that deleted an eligible MachineSet and skipped an older
\* ineligible one
CleanupBeyondLimitWitness ==
    /\ cln.done
    /\ Deleted # {}
    /\ \E t \in Range(CleanupOld) \ EligibleBefore : \E u \in Deleted : t < u


(***************************************************************************)
(* MachineSet controller: one MachineSet and its Machines, one by one      *)
(***************************************************************************)
MaxSetMachines == 3         \* the MachineSet starts with 1..MaxSetMachines Machines
MaxSetEdits == 2            \* edits by the user in one behaviour

exceptMset == <<stackVars, nms, cfg, occ, evi, join, cln, pureVars>>

\* a Machine of the MachineSet: a candidate of the delete policies with a name
SetMachine(name, age, failed) ==
    [name |-> name, deleting |-> FALSE, annotated |-> FALSE, failed |-> failed,
     zeroTs |-> FALSE, age |-> age, available |-> TRUE]

NotSynced == [synced |-> FALSE, diff |-> 0, hadAnnotated |-> FALSE, deleted |-> {},
              created |-> 0]

\* syncReplicas on the list of Machines: diff < 0 creates -diff Machines from
\* the template, diff > 0 deletes the Machines the delete policy picks,
\* diff = 0 leaves the population alone
syncMachines(replicas, list, policy, nextName) ==
    LET diff == Len(list) - replicas
        doomed == IF diff > 0
                  THEN getMachinesToDeletePrioritized(list, diff, getDeletePriorityFunc(policy))
                  ELSE <<>>
        kept == SelectSeq(list, LAMBDA m : m \notin Range(doomed))
        fresh == IF diff < 0
                 THEN [j \in 1..(0 - diff) |-> SetMachine(nextName + j - 1, 0, FALSE)]
                 ELSE <<>>
    IN [machines |-> kept \o fresh, diff |-> diff, deleted |-> Range(doomed),
        created |-> Len(fresh)]

InitMachineSet ==
    /\ \E policy \in DeletePolicies, n \in 1..MaxSetMachines,
          age \in [1..MaxSetMachines -> 1..MaxYoungAge],
          failed \in [1..MaxSetMachines -> BOOLEAN] :
        /\ \A j \in 1..MaxSetMachines : j > n => (age[j] = 1 /\ ~failed[j])
        /\ mset = [policy |-> policy, replicas |-> n,
                   machines |-> [j \in 1..n |-> SetMachine(j, age[j], failed[j])],
                   nextName |-> n + 1, edits |-> 0, last |-> NotSynced]
    /\ StackIdle /\ PureIdle
    /\ nms = "idle" /\ cfg = "idle" /\ occ = "idle"
    /\ evi = "idle" /\ join = "idle" /\ cln = "idle"

\* the user puts the delete-machine annotation on the Machine at position i
AnnotateMachine(i) ==
    /\ mset.edits < MaxSetEdits
    /\ i \in 1..Len(mset.machines)
    /\ ~mset.machines[i].annotated
    /\ mset' = [mset EXCEPT !.machines[i].annotated = TRUE, !.edits = @ + 1,
                            !.last = NotSynced]
    /\ UNCHANGED exceptMset

\* the MachineSet is scaled down by one
ScaleDownMachineSet ==
    /\ mset.edits < MaxSetEdits
    /\ mset.replicas > 0
    /\ mset' = [mset EXCEPT !.replicas = @ - 1, !.edits = @ + 1, !.last = NotSynced]
    /\ UNCHANGED exceptMset

\* a Machine disappears (deleted by the user and finalized)
MachineVanishes(i) ==
    /\ mset.edits < MaxSetEdits
    /\ i \in 1..Len(mset.machines)
    /\ mset' = [mset EXCEPT
                  !.machines = SelectSeq(mset.machines,
                                         LAMBDA m : m.name # mset.machines[i].name),
                  !.edits = @ + 1, !.last = NotSynced]
    /\ UNCHANGED exceptMset

\* one reconcile of the MachineSet
MachineSetSync ==
    /\ \E r \in {syncMachines(mset.replicas, mset.machines, mset.policy, mset.nextName)} :
          mset' = [mset EXCEPT
                     !.machines = r.machines,
                     !.nextName = @ + r.created,
                     !.last = [synced |-> TRUE, diff |-> r.diff,
                               hadAnnotated |-> \E j \in 1..Len(mset.machines) :
                                                   mset.machines[j].annotated,
                               deleted |-> r.deleted, created |-> r.created]]
    /\ UNCHANGED exceptMset

NextMachineSet ==
    \/ \E i \in 1..MaxSetMachines : AnnotateMachine(i)
    \/ ScaleDownMachineSet
    \/ \E i \in 1..MaxSetMachines : MachineVanishes(i)
    \/ MachineSetSync

SpecMachineSet == InitMachineSet /\ [][NextMachineSet]_vars

AnnotatedLeft == \E j \in 1..Len(mset.machines) : mset.machines[j].annotated

\* C17 as stated: a reconcile that finds an annotated Machine while
\* spec.replicas equals the number of Machines deletes that Machine.
AnnotatedMachineDeleted ==
    (mset.last.synced /\ mset.last.diff = 0 /\ mset.last.hadAnnotated) => ~AnnotatedLeft

\* C17 (delete annotation): a MachineSet reconcile with spec.replicas equal to
\* the number of Machines deletes and creates nothing, annotation or not; the
\* annotation decides which Machine goes when the MachineSet is scaled down:
\* under the Random policy no Machine without annotation or error status is
\* deleted while an annotated Machine stays.
AnnotationActsOnScaleDown ==
    mset.last.synced =>
        /\ mset.last.diff = 0 => (mset.last.deleted = {} /\ mset.last.created = 0)
        /\ (mset.policy \in {"Random", ""} /\ mset.last.diff > 0 /\ AnnotatedLeft)
              => \A m \in mset.last.deleted : Marked(m)

\* a scale-down has deleted the annotated Machine, which was not the first
\* of the list, and has left an older unmarked Machine
AnnotationActsOnScaleDownWitness ==
    /\ mset.last.synced /\ mset.last.diff > 0
    /\ \E m \in mset.last.deleted : m.annotated /\ m.name > 1
    /\ \E j \in 1..Len(mset.machines) : mset.machines[j].name = 1 /\ ~Marked(mset.machines[j])


(***************************************************************************)
(* Rollback of a rollout whose new Machines never become available         *)
(***************************************************************************)
\* the template that is rolled out and abandoned, and the one reverted to
GoodTemplate == CHOOSE t \in Templates : \A u \in Templates : t <= u
FailedTemplate == GoodTemplate + 1

\* the user rolls out FailedTemplate
RolloutFailedTemplate == changes = 0 /\ TemplateChange(FailedTemplate)

\* the user reverts to the previous template
RevertTemplate == changes = 1 /\ TemplateChange(GoodTemplate)

\* only the Machines of GoodTemplate ever become available
NextRollback ==
    \/ RolloutFailedTemplate
    \/ RevertTemplate
    \/ RolloutRolling
    \/ \E t \in Templates : MachineSetReconcile(t)
    \/ MachineBecomesAvailable(GoodTemplate)

\* fairness: every reconcile eventually runs and the Machines of GoodTemplate
\* eventually become available
SpecRollback ==
    /\ Init
    /\ [][NextRollback]_vars
    /\ WF_vars(RolloutRolling)
    /\ \A t \in Templates : WF_vars(MachineSetReconcile(t))
    /\ WF_vars(MachineBecomesAvailable(GoodTemplate))

Reverted == changes = 2 /\ d.template = GoodTemplate

RolledBack ==
    /\ ms[FailedTemplate].replicas = 0
    /\ machines[FailedTemplate] = NoMachines
    /\ ms[GoodTemplate].exists /\ ms[GoodTemplate].replicas = d.replicas

\* C18 (rollback): once the template has been reverted, the abandoned
\* MachineSet, none of whose Machines ever became available, is eventually
\* scaled to 0 and loses its Machines, and the MachineSet of the reverted
\* template is eventually back at D replicas.
RollbackConverges == Reverted ~> RolledBack

\* the template has been reverted while the abandoned MachineSet holds a
\* Machine that is not available and the MachineSet reverted to is below D
RollbackConvergesWitness ==
    /\ Reverted
    /\ ms[FailedTemplate].exists /\ machines[FailedTemplate].u > 0
    /\ ms[GoodTemplate].replicas < d.replicas


(***************************************************************************)
(* Machine controller: the eviction decision (shouldEvict)                 *)
(*                                                                         *)
(* Times are in hours.  A nodeRef is the name of a Node, 0 if it is nil.   *)
(***************************************************************************)
MaxElapsed == 3             \* now - deletionTimestamp ranges over 0..MaxElapsed
MaxSkipEvictionAfter == 2   \* skipEvictionAfter ranges over 0..MaxSkipEvictionAfter (0: never skip)
MaxNodes == 2               \* Node names are 1..MaxNodes
MaxOtherMachines == 1       \* other Machines of the cluster

exceptEvi == <<stackVars, nms, cfg, occ, mset, join, cln, pureVars>>

NodeNames == 1..MaxNodes

\* a shouldEvict that takes the Machine's own Node for a target
shouldEvictOwnNode(machine, skipEvictionAfter, nodes, otherMachines) ==
    IF skipEvictionAfter > 0 /\ machine.elapsed > skipEvictionAfter THEN FALSE
    ELSE IF machine.nodeRef = 0 THEN FALSE
    ELSE IF machine.nodeRef \notin nodes THEN FALSE
    ELSE TRUE

\* shouldEvict: no eviction after skipEvictionAfter, without nodeRef or
\* without the Node; otherwise eviction needs a Machine without nodeRef or a
\* Node other than the Machine's own
shouldEvict(machine, skipEvictionAfter, nodes, otherMachines) ==
    IF skipEvictionAfter > 0 /\ machine.elapsed > skipEvictionAfter THEN FALSE
    ELSE IF machine.nodeRef = 0 THEN FALSE
    ELSE IF machine.nodeRef \notin nodes THEN FALSE
    ELSE IF \E j \in 1..Len(otherMachines) : otherMachines[j].nodeRef = 0 THEN TRUE
    ELSE IF nodes \ {machine.nodeRef} # {} THEN TRUE
    ELSE FALSE

\* the Machine is being deleted; every Node of the cluster and every other
\* Machine, with or without nodeRef
InitEvict ==
    /\ \E elapsed \in 0..MaxElapsed, nodeRef \in {0} \cup NodeNames,
          skipEvictionAfter \in 0..MaxSkipEvictionAfter, nodes \in SUBSET NodeNames,
          n \in 0..MaxOtherMachines :
       \E refs \in [1..n -> {0} \cup NodeNames] :
          evi = [machine |-> [elapsed |-> elapsed, nodeRef |-> nodeRef],
                 skipEvictionAfter |-> skipEvictionAfter,
                 nodes |-> nodes,
                 otherMachines |-> [j \in 1..n |-> [nodeRef |-> refs[j]]],
                 done |-> FALSE, shouldEvict |-> FALSE]
    /\ StackIdle /\ PureIdle
    /\ nms = "idle" /\ cfg = "idle" /\ occ = "idle"
    /\ mset = "idle" /\ join = "idle" /\ cln = "idle"

\* the deletion reconcile asks whether to evict
EvictionDecision ==
    /\ ~evi.done
    /\ evi' = [evi EXCEPT !.done = TRUE,
                          !.shouldEvict = shouldEvict(evi.machine, evi.skipEvictionAfter,
                                                      evi.nodes, evi.otherMachines)]
    /\ UNCHANGED exceptEvi

NextEvict == EvictionDecision

SpecEvict == InitEvict /\ [][NextEvict]_vars

\* the cases of TestControllerShouldEvict: skipEvictionAfter is 2 hours
ShouldEvictTests ==
    {[machine |-> [elapsed |-> 3, nodeRef |-> 1], nodes |-> {1},
      otherMachines |-> <<>>, shouldEvict |-> FALSE],
     [machine |-> [elapsed |-> 0, nodeRef |-> 0], nodes |-> {},
      otherMachines |-> <<>>, shouldEvict |-> FALSE],
     [machine |-> [elapsed |-> 0, nodeRef |-> 2], nodes |-> {},
      otherMachines |-> <<>>, shouldEvict |-> FALSE],
     [machine |-> [elapsed |-> 0, nodeRef |-> 1], nodes |-> {1},
      otherMachines |-> <<>>, shouldEvict |-> FALSE],
     [machine |-> [elapsed |-> 0, nodeRef |-> 1], nodes |-> {1, 2},
      otherMachines |-> <<>>, shouldEvict |-> TRUE],
     [machine |-> [elapsed |-> 0, nodeRef |-> 1], nodes |-> {1, 2},
      otherMachines |-> <<[nodeRef |-> 0]>>, shouldEvict |-> TRUE]}

\* the model decides every case of the test as the test expects
ShouldEvictMatchesTests ==
    \A c \in ShouldEvictTests :
        shouldEvict(c.machine, 2, c.nodes, c.otherMachines) = c.shouldEvict

TimeoutElapsed == evi.skipEvictionAfter > 0 /\ evi.machine.elapsed > evi.skipEvictionAfter
NoNodeRef == evi.machine.nodeRef = 0
NodeGone == evi.machine.nodeRef \notin evi.nodes
NoTarget ==
    /\ evi.nodes \ {evi.machine.nodeRef} = {}
    /\ \A j \in 1..Len(evi.otherMachines) : evi.otherMachines[j].nodeRef # 0

\* C19 (eviction decision): shouldEvict returns false if skipEvictionAfter
\* has elapsed since the deletionTimestamp, if the Machine has no nodeRef, if
\* the Node it refers to does not exist, or if there is neither another Node
\* nor a Machine without nodeRef; in every other case it returns true.
EvictionDecisionTable ==
    evi.done =>
        (evi.shouldEvict <=> ~(TimeoutElapsed \/ NoNodeRef \/ NodeGone \/ NoTarget))

\* eviction was refused only because nothing could receive the pods: the
\* Node exists, the timeout has not elapsed, every other Machine has a Node
EvictionDecisionTableWitness ==
    /\ evi.done /\ ~evi.shouldEvict
    /\ ~TimeoutElapsed /\ ~NoNodeRef /\ ~NodeGone /\ NoTarget
    /\ Len(evi.otherMachines) > 0


(***************************************************************************)
(* Machine controller: node binding and the join timeout                   *)
(*                                                                         *)
(* Ages and the timeout are in units of ten minutes; a joinClusterTimeout  *)
(* of 0 is the nil pointer of a controller started without the flag.       *)
(***************************************************************************)
MaxAge == 3                 \* now - creationTimestamp ranges over 0..MaxAge
MaxJoinTimeout == 2         \* joinClusterTimeout ranges over 0..MaxJoinTimeout
MaxOwnerReferences == 2     \* a Machine has 0..MaxOwnerReferences owner references

exceptJoin == <<stackVars, nms, cfg, occ, mset, evi, cln, pureVars>>

OwnerKinds == {"MachineSet", "Cat"}

ownerReferencesHasMachineSetKind(ownerReferences) ==
    \E j \in 1..Len(ownerReferences) : ownerReferences[j] = "MachineSet"

\* an ensureNodeOwnerRef that deletes on timeout whoever owns the Machine
ensureNodeOwnerRefAnyOwner(machine, nodeFound, joinClusterTimeout) ==
    IF nodeFound THEN [deleted |-> FALSE, nodeRef |-> TRUE]
    ELSE IF joinClusterTimeout > 0 /\ machine.age > joinClusterTimeout
    THEN [deleted |-> TRUE, nodeRef |-> FALSE]
    ELSE [deleted |-> FALSE, nodeRef |-> FALSE]

\* ensureNodeOwnerRef: a matching Node is bound to the Machine; without one
\* the Machine of a MachineSet is deleted once it is older than the timeout
ensureNodeOwnerRef(machine, nodeFound, joinClusterTimeout) ==
    IF nodeFound THEN [deleted |-> FALSE, nodeRef |-> TRUE]
    ELSE IF /\ joinClusterTimeout > 0
            /\ machine.age > joinClusterTimeout
            /\ ownerReferencesHasMachineSetKind(machine.ownerReferences)
    THEN [deleted |-> TRUE, nodeRef |-> FALSE]
    ELSE [deleted |-> FALSE, nodeRef |-> FALSE]

InitJoin ==
    /\ \E age \in 0..MaxAge, hasNode \in BOOLEAN, timeout \in 0..MaxJoinTimeout,
          n \in 0..MaxOwnerReferences :
       \E owners \in [1..n -> OwnerKinds] :
          join = [machine |-> [age |-> age, ownerReferences |-> owners],
                  hasNode |-> hasNode, joinClusterTimeout |-> timeout,
                  done |-> FALSE, deleted |-> FALSE, nodeRef |-> FALSE]
    /\ StackIdle /\ PureIdle
    /\ nms = "idle" /\ cfg = "idle" /\ occ = "idle"
    /\ mset = "idle" /\ evi = "idle" /\ cln = "idle"

\* the reconcile of a Machine whose instance is running reaches the node binding
NodeBinding ==
    /\ ~join.done
    /\ \E r \in {ensureNodeOwnerRef(join.machine, join.hasNode, join.joinClusterTimeout)} :
          join' = [join EXCEPT !.done = TRUE, !.deleted = r.deleted, !.nodeRef = r.nodeRef]
    /\ UNCHANGED exceptJoin

NextJoin == NodeBinding

SpecJoin == InitJoin /\ [][NextJoin]_vars

\* the cases of TestControllerDeletesMachinesOnJoinTimeout: ages of 20 and 9
\* minutes, a timeout of 10 minutes or none
JoinTimeoutTests ==
    {[age |-> 2, hasNode |-> TRUE, owners |-> <<>>, timeout |-> 1, getsDeleted |-> FALSE],
     [age |-> 2, hasNode |-> FALSE, owners |-> <<>>, timeout |-> 1, getsDeleted |-> FALSE],
     [age |-> 0, hasNode |-> FALSE, owners |-> <<"MachineSet">>, timeout |-> 1,
      getsDeleted |-> FALSE],
     [age |-> 2, hasNode |-> FALSE, owners |-> <<"MachineSet">>, timeout |-> 1,
      getsDeleted |-> TRUE],
     [age |-> 2, hasNode |-> FALSE, owners |-> <<"Cat">>, timeout |-> 1,
      getsDeleted |-> FALSE],
     [age |-> 2, hasNode |-> FALSE, owners |-> <<"MachineSet">>, timeout |-> 0,
      getsDeleted |-> FALSE]}

\* the model decides every case of the test as the test expects
JoinTimeoutMatchesTests ==
    \A c \in JoinTimeoutTests :
        ensureNodeOwnerRef([age |-> c.age, ownerReferences |-> c.owners],
                           c.hasNode, c.timeout).deleted = c.getsDeleted

\* C20 (join-timeout deletion): ensureNodeOwnerRef deletes the Machine if and
\* only if no Node matches it, a joinClusterTimeout is configured, the Machine
\* is older than the timeout and one of its owner references has Kind
\* MachineSet.
JoinTimeoutDeletion ==
    join.done =>
        (join.deleted <=>
            /\ ~join.hasNode
            /\ join.joinClusterTimeout > 0
            /\ join.machine.age > join.joinClusterTimeout
            /\ \E j \in 1..Len(join.machine.ownerReferences) :
                  join.machine.ownerReferences[j] = "MachineSet")

\* a Machine older than the timeout and without Node was kept because none
\* of its owners is a MachineSet
JoinTimeoutDeletionWitness ==
    /\ join.done /\ ~join.deleted
    /\ ~join.hasNode
    /\ join.joinClusterTimeout > 0 /\ join.machine.age > join.joinClusterTimeout
    /\ Len(join.machine.ownerReferences) > 0


(***************************************************************************)
(* Machine controller: deletion of the Nodes of a Machine                  *)
(*                                                                         *)
(* nd.nodes is the API server: Node name -> object, with the value of the  *)
(* node owner label ("machine": the UID of this Machine, "other": another  *)
(* UID, "none": no label).  nd.vanished are the Nodes that somebody else   *)
(* removed while the deletion was under way.                               *)
(***************************************************************************)
exceptNd == <<stackVars, nms, cfg, occ, mset, evi, join, cln, gn, st, av, prop, lateVars>>

NodeOwners == {"machine", "other", "none"}
NoNode == [exists |-> FALSE, owner |-> "none"]
NodeObjects == {NoNode} \cup [exists : {TRUE}, owner : NodeOwners]

\* a retrieveNodesRelatedToMachine that adds the labelled Nodes to the Node
\* of the nodeRef
retrieveNodesRelatedToMachineBoth(machine, nodes) ==
    {n \in NodeNames : nodes[n].exists /\ (n = machine.nodeRef \/ nodes[n].owner = "machine")}

\* retrieveNodesRelatedToMachine: the Node named by the nodeRef if it exists
\* (NotFound is no error); without nodeRef the Nodes that carry the owner
\* label of the Machine
retrieveNodesRelatedToMachine(machine, nodes) ==
    IF machine.nodeRef # 0
    THEN {n \in NodeNames : n = machine.nodeRef /\ nodes[n].exists}
    ELSE {n \in NodeNames : nodes[n].exists /\ nodes[n].owner = "machine"}

\* deleteNodeForMachine on the retrieved Nodes: each one is deleted, NotFound
\* is logged and skipped
deleteNodesForMachine(related, nodes) ==
    [n \in NodeNames |-> IF n \in related THEN NoNode ELSE nodes[n]]

InitNodeDelete ==
    /\ \E nodeRef \in {0} \cup NodeNames, nodes \in [NodeNames -> NodeObjects] :
          nd = [machine |-> [nodeRef |-> nodeRef], nodes |-> nodes, before |-> nodes,
                related |-> {}, vanished |-> {}, pc |-> "start", err |-> FALSE]
    /\ StackIdle
    /\ nms = "idle" /\ cfg = "idle" /\ occ = "idle" /\ mset = "idle"
    /\ evi = "idle" /\ join = "idle" /\ cln = "idle"
    /\ gn = "idle" /\ st = "idle" /\ av = "idle" /\ prop = "idle" /\ LateIdle

RetrieveNodes ==
    /\ nd.pc = "start"
    /\ nd' = [nd EXCEPT !.related = retrieveNodesRelatedToMachine(nd.machine, nd.nodes),
                        !.pc = "retrieved"]
    /\ UNCHANGED exceptNd

\* somebody else deletes a Node between the two calls
NodeVanishes(n) ==
    /\ nd.pc = "retrieved"
    /\ nd.nodes[n].exists
    /\ nd' = [nd EXCEPT !.nodes[n] = NoNode, !.vanished = @ \cup {n}]
    /\ UNCHANGED exceptNd

DeleteNodes ==
    /\ nd.pc = "retrieved"
    /\ nd' = [nd EXCEPT !.nodes = deleteNodesForMachine(nd.related, nd.nodes),
                        !.pc = "done", !.err = FALSE]
    /\ UNCHANGED exceptNd

NextNodeDelete ==
    \/ RetrieveNodes
    \/ \E n \in NodeNames : NodeVanishes(n)
    \/ DeleteNodes

SpecNodeDelete == InitNodeDelete /\ [][NextNodeDelete]_vars

\* the cases of TestControllerDeleteNodeForMachine: node-0 is 1, node-1 is 2
NodeDeleteTests ==
    {[nodeRef |-> 2, nodes |-> <<[exists |-> TRUE, owner |-> "none"],
                                 [exists |-> TRUE, owner |-> "none"]>>, deleted |-> {2}],
     [nodeRef |-> 0, nodes |-> <<[exists |-> TRUE, owner |-> "machine"],
                                 [exists |-> TRUE, owner |-> "none"]>>, deleted |-> {1}],
     [nodeRef |-> 0, nodes |-> <<[exists |-> TRUE, owner |-> "none"],
                                 [exists |-> TRUE, owner |-> "none"]>>, deleted |-> {}],
     [nodeRef |-> 2, nodes |-> <<[exists |-> TRUE, owner |-> "none"], NoNode>>,
      deleted |-> {}]}

\* the model deletes in every case of the test what the test expects
NodeDeleteMatchesTests ==
    \A c \in NodeDeleteTests :
        LET nodes == [n \in NodeNames |-> IF n <= 2 THEN c.nodes[n] ELSE NoNode]
        IN retrieveNodesRelatedToMachine([nodeRef |-> c.nodeRef], nodes) = c.deleted

\* the Nodes the deletion is to remove, as they were when it started
NodesToDelete ==
    IF nd.machine.nodeRef # 0
    THEN {n \in NodeNames : n = nd.machine.nodeRef /\ nd.before[n].exists}
    ELSE {n \in NodeNames : nd.before[n].exists /\ nd.before[n].owner = "machine"}

\* C21 (node deletion): the deletion removes exactly the Node named by the
\* nodeRef if there is a nodeRef, otherwise exactly the Nodes labelled with
\* the Machine's UID; every other Node is left as it was, and a Node that is
\* already gone is no error.
NodeDeletionExact ==
    nd.pc = "done" =>
        /\ ~nd.err
        /\ \A n \in NodesToDelete : ~nd.nodes[n].exists
        /\ \A n \in NodeNames \ (NodesToDelete \cup nd.vanished) : nd.nodes[n] = nd.before[n]

\* the Machine has a nodeRef, the deletion went through although the Node
\* vanished under way, and a Node labelled with the Machine's UID is kept
NodeDeletionExactWitness ==
    /\ nd.pc = "done" /\ ~nd.err
    /\ nd.machine.nodeRef # 0 /\ nd.machine.nodeRef \in nd.vanished
    /\ \E n \in NodeNames : n # nd.machine.nodeRef /\ nd.nodes[n].exists
                            /\ nd.nodes[n].owner = "machine"


(***************************************************************************)
(* Machine controller: matching a Node to a cloud instance (getNode)       *)
(*                                                                         *)
(* A provider id is a record of a zone and an id (zone 0: the form without *)
(* zone), or NoProviderID for the empty string.  Names and addresses are   *)
(* numbers.                                                                *)
(***************************************************************************)
MaxListedNodes == 2         \* getNode lists 0..MaxListedNodes Nodes
MaxInstanceNames == 2       \* Node and instance names are 1..MaxInstanceNames
MaxAddresses == 2           \* addresses are 1..MaxAddresses
MaxInstanceIDs == 2         \* the id part of a provider id is 1..MaxInstanceIDs

exceptGn == <<stackVars, nms, cfg, occ, mset, evi, join, cln, nd, st, av, prop, lateVars>>

NoProviderID == [zone |-> 0, id |-> 0]
ProviderIDs == {NoProviderID} \cup [zone : 0..1, id : 1..MaxInstanceIDs]
MatchProviders == {"aws", "hetzner", "other"}

\* the provider id as it is compared: AWS ids are compared without the zone
NormalizeProviderID(provider, pid) ==
    IF provider = "aws" THEN [pid EXCEPT !.zone = 0] ELSE pid

\* findNodeByProviderID: the positions of the Nodes whose spec.providerID
\* equals the instance's provider id after normalization
findNodeByProviderID(instance, provider, nodes) ==
    IF instance.providerID = NoProviderID THEN {}
    ELSE {j \in 1..Len(nodes) :
             /\ nodes[j].providerID # NoProviderID
             /\ NormalizeProviderID(provider, nodes[j].providerID)
                    = NormalizeProviderID(provider, instance.providerID)}

\* the fallback of getNode: Nodes that share an address with the instance,
\* on Hetzner only those named like the instance
findNodeByAddress(instance, provider, nodes) ==
    {j \in 1..Len(nodes) :
        /\ provider = "hetzner" => nodes[j].name = instance.name
        /\ nodes[j].addresses \cap instance.addresses # {}}

FirstOf(positions) == CHOOSE j \in positions : \A k \in positions : j <= k

\* a getNode whose address fallback does not look at the name on Hetzner
getNodeAnyName(instance, provider, nodes) ==
    IF findNodeByProviderID(instance, provider, nodes) # {}
    THEN FirstOf(findNodeByProviderID(instance, provider, nodes))
    ELSE IF findNodeByAddress(instance, "other", nodes) # {}
    THEN FirstOf(findNodeByAddress(instance, "other", nodes))
    ELSE 0

\* getNode: the position of the Node found, 0 for none (exists = false)
getNode(instance, provider, nodes) ==
    IF findNodeByProviderID(instance, provider, nodes) # {}
    THEN FirstOf(findNodeByProviderID(instance, provider, nodes))
    ELSE IF findNodeByAddress(instance, provider, nodes) # {}
    THEN FirstOf(findNodeByAddress(instance, provider, nodes))
    ELSE 0

ListedNodes ==
    [name : 1..MaxInstanceNames, providerID : ProviderIDs,
     addresses : SUBSET (1..MaxAddresses)]

MatchInstances ==
    [name : 1..MaxInstanceNames, providerID : ProviderIDs,
     addresses : SUBSET (1..MaxAddresses)]

InitGetNode ==
    /\ \E instance \in MatchInstances, provider \in MatchProviders, n \in 0..MaxListedNodes :
       \E nodes \in [1..n -> ListedNodes] :
          gn = [instance |-> instance, provider |-> provider, nodes |-> nodes,
                done |-> FALSE, node |-> 0, err |-> FALSE]
    /\ StackIdle
    /\ nms = "idle" /\ cfg = "idle" /\ occ = "idle" /\ mset = "idle"
    /\ evi = "idle" /\ join = "idle" /\ cln = "idle"
    /\ nd = "idle" /\ st = "idle" /\ av = "idle" /\ prop = "idle" /\ LateIdle

GetNode ==
    /\ ~gn.done
    /\ gn' = [gn EXCEPT !.done = TRUE, !.err = FALSE,
                        !.node = getNode(gn.instance, gn.provider, gn.nodes)]
    /\ UNCHANGED exceptGn

NextGetNode == GetNode

SpecGetNode == InitGetNode /\ [][NextGetNode]_vars

\* the Nodes of TestController_GetNode: node k has the name k and the
\* addresses 2k - 1 (internal) and 2k (external)
TestNode(k, providerID) ==
    [name |-> k, providerID |-> providerID, addresses |-> {2 * k - 1, 2 * k}]

TestNodeList ==
    <<TestNode(1, [zone |-> 0, id |-> 1]), TestNode(2, [zone |-> 0, id |-> 2]),
      TestNode(3, NoProviderID), TestNode(4, [zone |-> 0, id |-> 3])>>

\* cases of TestController_GetNode: address 99 is unknown, the instance name
\* 0 is the empty name and 9 is "instance3"
GetNodeTests ==
    {[instance |-> [name |-> 0, providerID |-> NoProviderID, addresses |-> {99}],
      provider |-> "other", node |-> 0],
     [instance |-> [name |-> 0, providerID |-> [zone |-> 0, id |-> 1], addresses |-> {}],
      provider |-> "aws", node |-> 1],
     [instance |-> [name |-> 0, providerID |-> NoProviderID, addresses |-> {5}],
      provider |-> "other", node |-> 3],
     [instance |-> [name |-> 0, providerID |-> NoProviderID, addresses |-> {6}],
      provider |-> "other", node |-> 3],
     [instance |-> [name |-> 3, providerID |-> NoProviderID, addresses |-> {5}],
      provider |-> "hetzner", node |-> 3],
     [instance |-> [name |-> 3, providerID |-> NoProviderID, addresses |-> {6}],
      provider |-> "hetzner", node |-> 3],
     [instance |-> [name |-> 9, providerID |-> NoProviderID, addresses |-> {5}],
      provider |-> "hetzner", node |-> 0],
     [instance |-> [name |-> 0, providerID |-> [zone |-> 0, id |-> 3], addresses |-> {}],
      provider |-> "hetzner", node |-> 4]}

\* the model finds in every case of the test the Node the test expects
GetNodeMatchesTests ==
    \A c \in GetNodeTests : getNode(c.instance, c.provider, TestNodeList) = c.node

MatchesByProviderID ==
    {j \in 1..Len(gn.nodes) :
        /\ gn.instance.providerID # NoProviderID
        /\ gn.nodes[j].providerID # NoProviderID
        /\ gn.nodes[j].providerID.id = gn.instance.providerID.id
        /\ gn.provider # "aws" => gn.nodes[j].providerID.zone = gn.instance.providerID.zone}

MatchesByAddress ==
    {j \in 1..Len(gn.nodes) :
        /\ \E a \in gn.instance.addresses : a \in gn.nodes[j].addresses
        /\ gn.provider = "hetzner" => gn.nodes[j].name = gn.instance.name}

\* C22 (node matching): getNode returns a Node matching by provider id
\* whenever there is one; only without such a Node it returns a Node sharing
\* an address with the instance, on Hetzner only one that is also named like
\* the instance; with no match at all it reports no Node and no error.
NodeMatching ==
    gn.done =>
        /\ ~gn.err
        /\ MatchesByProviderID # {} => gn.node \in MatchesByProviderID
        /\ (MatchesByProviderID = {} /\ MatchesByAddress # {}) => gn.node \in MatchesByAddress
        /\ (MatchesByProviderID = {} /\ MatchesByAddress = {}) => gn.node = 0

\* on Hetzner the first Node shares an address with the instance but has
\* another name, and the second one, with the instance's name, is returned
NodeMatchingWitness ==
    /\ gn.done /\ gn.provider = "hetzner" /\ MatchesByProviderID = {}
    /\ Len(gn.nodes) > 1
    /\ gn.nodes[1].addresses \cap gn.instance.addresses # {}
    /\ gn.nodes[1].name # gn.instance.name
    /\ gn.node > 1


(***************************************************************************)
(* MachineSet controller: status write-back (updateMachineSetStatus)       *)
(*                                                                         *)
(* st.server is the MachineSet in the API server, st.ms the object the     *)
(* reconcile holds, st.attempts the observedGeneration of every status     *)
(* update that was sent.                                                   *)
(***************************************************************************)
statusUpdateRetries == 1
MaxGeneration == 3          \* metadata.generation ranges over 1..MaxGeneration
MaxStatusReplicas == 1      \* status.replicas ranges over 0..MaxStatusReplicas

exceptSt == <<stackVars, nms, cfg, occ, mset, evi, join, cln, nd, gn, av, prop, lateVars>>

\* a status whose observedGeneration is taken from the object at hand in every attempt
attemptStatusFresh(newStatus, obj) == [newStatus EXCEPT !.observedGeneration = obj.generation]

\* the status of one attempt: newStatus with the observedGeneration saved
\* before the loop
attemptStatus(newStatus, obj) == newStatus

InitStatus ==
    /\ \E g \in 1..(MaxGeneration - 1), og \in 0..(MaxGeneration - 1),
          r \in 0..MaxStatusReplicas, nr \in 0..MaxStatusReplicas :
        /\ og <= g
        /\ \E obj \in {[generation |-> g, resourceVersion |-> 1,
                        status |-> [replicas |-> r, observedGeneration |-> og]]} :
              st = [server |-> obj, ms |-> obj,
                    newStatus |-> [replicas |-> nr, observedGeneration |-> 0],
                    computedFrom |-> g, i |-> 0, pc |-> "start", attempts |-> <<>>]
    /\ StackIdle
    /\ nms = "idle" /\ cfg = "idle" /\ occ = "idle" /\ mset = "idle"
    /\ evi = "idle" /\ join = "idle" /\ cln = "idle"
    /\ nd = "idle" /\ gn = "idle" /\ av = "idle" /\ prop = "idle" /\ LateIdle

\* the steady-state check and the saving of the generation acted on
StatusBegin ==
    /\ st.pc = "start"
    /\ IF /\ st.ms.status.replicas = st.newStatus.replicas
          /\ st.ms.generation = st.ms.status.observedGeneration
       THEN st' = [st EXCEPT !.pc = "unchanged"]
       ELSE st' = [st EXCEPT !.newStatus.observedGeneration = st.ms.generation,
                             !.pc = "update"]
    /\ UNCHANGED exceptSt

\* one Status().Update: accepted on the current resourceVersion, a conflict otherwise
StatusUpdate ==
    /\ st.pc = "update"
    /\ \E status \in {attemptStatus(st.newStatus, st.ms)} :
          IF st.ms.resourceVersion = st.server.resourceVersion
          THEN st' = [st EXCEPT !.server.status = status,
                                !.server.resourceVersion = @ + 1,
                                !.ms.status = status,
                                !.attempts = Append(@, status.observedGeneration),
                                !.pc = "done"]
          ELSE st' = [st EXCEPT !.ms.status = status,
                                !.attempts = Append(@, status.observedGeneration),
                                !.pc = IF st.i >= statusUpdateRetries THEN "failed" ELSE "get"]
    /\ UNCHANGED exceptSt

\* the Get before the retry: the latest object, or an error
StatusGet ==
    /\ st.pc = "get"
    /\ \/ st' = [st EXCEPT !.ms = st.server, !.i = @ + 1, !.pc = "update"]
       \/ st' = [st EXCEPT !.pc = "failed"]
    /\ UNCHANGED exceptSt

\* somebody changes the spec of the MachineSet: a new generation
SpecChange ==
    /\ st.pc \in {"start", "update", "get"}
    /\ st.server.generation < MaxGeneration
    /\ st' = [st EXCEPT !.server.generation = @ + 1, !.server.resourceVersion = @ + 1]
    /\ UNCHANGED exceptSt

NextStatus == StatusBegin \/ StatusUpdate \/ StatusGet \/ SpecChange

SpecStatus == InitStatus /\ [][NextStatus]_vars

\* C23 (status write-back): every status update that updateMachineSetStatus
\* sends, the first one and the retry, carries the generation of the
\* MachineSet the status was computed from as observedGeneration.
ObservedGenerationSaved ==
    \A j \in 1..Len(st.attempts) : st.attempts[j] = st.computedFrom

\* the retry went through after the spec had changed: the object fetched for
\* it has a newer generation than the one written
ObservedGenerationSavedWitness ==
    /\ st.pc = "done" /\ Len(st.attempts) = 2
    /\ st.ms.generation > st.computedFrom
    /\ st.server.status.observedGeneration = st.computedFrom


(***************************************************************************)
(* MachineSet controller: status computation (calculateStatus)             *)
(*                                                                         *)
(* Times are whole seconds; 0 is the zero time.  A Machine record says     *)
(* whether its labels match the template, what its nodeRef leads to, and   *)
(* the Ready condition of its Node.                                        *)
(***************************************************************************)
MaxStatusMachines == 2      \* filtered Machines of the MachineSet
MaxNow == 3                 \* the clock and lastTransitionTime range over 0..MaxNow
MaxMinReadySeconds == 2     \* spec.minReadySeconds ranges over 0..MaxMinReadySeconds

exceptAv == <<stackVars, nms, cfg, occ, mset, evi, join, cln, nd, gn, st, prop, lateVars>>

MachineNodeRefs == {"nil", "notFound", "node"}
ReadyConditions == {"absent", "True", "False"}

\* only a Node that exists has a Ready condition, and only a Ready condition
\* has a lastTransitionTime
StatusMachines ==
    {m \in [labelled : BOOLEAN, nodeRef : MachineNodeRefs, ready : ReadyConditions,
            lastTransitionTime : 0..MaxNow] :
        /\ m.nodeRef # "node" => m.ready = "absent"
        /\ m.ready = "absent" => m.lastTransitionTime = 0}

isNodeReady(node) == node.ready = "True"

\* available already when exactly minReadySeconds have passed
isNodeAvailableInclusive(node, minReadySeconds, now) ==
    /\ isNodeReady(node)
    /\ \/ minReadySeconds = 0
       \/ /\ node.lastTransitionTime # 0
          /\ node.lastTransitionTime + minReadySeconds <= now

isNodeAvailable(node, minReadySeconds, now) ==
    /\ isNodeReady(node)
    /\ \/ minReadySeconds = 0
       \/ /\ node.lastTransitionTime # 0
          /\ node.lastTransitionTime + minReadySeconds < now

\* getMachineNode fails without a nodeRef and when the Node cannot be read
getMachineNodeFails(machine) == machine.nodeRef # "node"

calculateMachineSetStatus(minReadySeconds, filteredMachines, now) ==
    LET idx == DOMAIN filteredMachines
        withNode == {k \in idx : ~getMachineNodeFails(filteredMachines[k])}
        readyOnes == {k \in withNode : isNodeReady(filteredMachines[k])}
    IN [replicas |-> Len(filteredMachines),
        fullyLabeledReplicas |-> Cardinality({k \in idx : filteredMachines[k].labelled}),
        readyReplicas |-> Cardinality(readyOnes),
        availableReplicas |->
            Cardinality({k \in readyOnes :
                isNodeAvailable(filteredMachines[k], minReadySeconds, now)})]

InitAvailable ==
    /\ \E n \in 1..MaxStatusMachines :
         \E list \in [1..n -> StatusMachines], m \in 0..MaxMinReadySeconds, now \in 1..MaxNow :
            av = [machines |-> list, minReadySeconds |-> m, now |-> now,
                  status |-> [replicas |-> 0, fullyLabeledReplicas |-> 0,
                              readyReplicas |-> 0, availableReplicas |-> 0],
                  pc |-> "start"]
    /\ StackIdle
    /\ nms = "idle" /\ cfg = "idle" /\ occ = "idle" /\ mset = "idle"
    /\ evi = "idle" /\ join = "idle" /\ cln = "idle"
    /\ nd = "idle" /\ gn = "idle" /\ st = "idle" /\ prop = "idle" /\ LateIdle

CalculateStatus ==
    /\ av.pc = "start"
    /\ av' = [av EXCEPT !.status = calculateMachineSetStatus(av.minReadySeconds, av.machines, av.now),
                        !.pc = "done"]
    /\ UNCHANGED exceptAv

NextAvailable == CalculateStatus

SpecAvailable == InitAvailable /\ [][NextAvailable]_vars

ReadyOnNode(m) == m.nodeRef = "node" /\ m.ready = "True"

\* the Machines that count as available when equality counts
ReadyAtLeast ==
    {k \in DOMAIN av.machines :
        /\ ReadyOnNode(av.machines[k])
        /\ \/ av.minReadySeconds = 0
           \/ av.now - av.machines[k].lastTransitionTime >= av.minReadySeconds}

\* the Machines whose Node became Ready at a known time more than
\* minReadySeconds ago
ReadyLongerThan ==
    {k \in DOMAIN av.machines :
        /\ ReadyOnNode(av.machines[k])
        /\ \/ av.minReadySeconds = 0
           \/ /\ av.machines[k].lastTransitionTime # 0
              /\ av.now - av.machines[k].lastTransitionTime > av.minReadySeconds}

MaxPropSets == 5            \* active MachineSets in the list
MaxPropReplicas == 2        \* spec.replicas of an active MachineSet ranges over 1..MaxPropReplicas
MaxPropDeployment == 3      \* D ranges over 1..MaxPropDeployment

exceptProp == <<stackVars, nms, cfg, occ, mset, evi, join, cln, nd, gn, st, av, lateVars>>

InitProportional ==
    /\ \E n \in 2..MaxPropSets :
         \E list \in [1..n -> 1..MaxPropReplicas],
            D \in 1..MaxPropDeployment, surge \in 0..MaxSurgeBound :
            prop = [replicas |-> list, D |-> D, maxSurge |-> surge,
                    first |-> <<>>, sizes |-> <<>>, pc |-> "start"]
    /\ StackIdle
    /\ nms = "idle" /\ cfg = "idle" /\ occ = "idle" /\ mset = "idle"
    /\ evi = "idle" /\ join = "idle" /\ cln = "idle"
    /\ nd = "idle" /\ gn = "idle" /\ st = "idle" /\ av = "idle" /\ LateIdle

\* the proportional branch over the list of active MachineSets
ScaleProportionally ==
    /\ prop.pc = "start"
    /\ \E msf \in {[k \in DOMAIN prop.replicas |-> [replicas |-> prop.replicas[k]]]} :
       \E allMSs \in {[k \in DOMAIN prop.replicas |-> k]} :
       \E allowedSize \in {prop.D + prop.maxSurge} :
          prop' = [prop EXCEPT
                      !.first = proportionalSizesNoLeftover(msf, allMSs, allowedSize),
                      !.sizes = proportionalSizes(msf, allMSs, allowedSize),
                      !.pc = "done"]
    /\ UNCHANGED exceptProp

NextProportional == ScaleProportionally

SpecProportional == InitProportional /\ [][NextProportional]_vars

PropAllowedSize == prop.D + prop.maxSurge
PropToAdd == PropAllowedSize - SumSeq(prop.replicas)
PropLeftover == PropToAdd - (SumSeq(prop.first) - SumSeq(prop.replicas))

\* the positions whose size the second loop changed
LeftoverTakers == {k \in DOMAIN prop.sizes : prop.sizes[k] # prop.first[k]}

Largest(k) == \A j \in DOMAIN prop.replicas : prop.replicas[j] <= prop.replicas[k]

\* C25 (proportional scaling remainder): a rounding leftover is added to, or
\* removed from, an active MachineSet with the largest replica count,
\* whatever the order of the list.
LeftoverToLargest ==
    (prop.pc = "done" /\ PropLeftover # 0) =>
        /\ \A k \in LeftoverTakers : Largest(k)
        /\ \E k \in DOMAIN prop.sizes :
              Largest(k) /\ prop.sizes[k] = Max(0, prop.first[k] + PropLeftover)


\* the size the first MachineSet of the list would get without the clamp at 0
PropFirstUnclamped == prop.first[1] + PropLeftover

\* C26 as stated: the sizes written sum exactly to D + maxSurge.
SizesSumToAllowedSize ==
    prop.pc = "done" => SumSeq(prop.sizes) = PropAllowedSize

\* C26 (proportional scaling total): for D > 0 the sizes written by the
\* proportional branch sum to allowedSize = D + maxSurge, replicas added or
\* removed, unless the leftover would take the first MachineSet of the list
\* below 0: that MachineSet then gets 0 and the sum stays above allowedSize
\* by the part of the leftover that was cut.
SizesSumUnlessClamped ==
    prop.pc = "done" =>
        /\ \A k \in DOMAIN prop.sizes : prop.sizes[k] >= 0
        /\ IF PropFirstUnclamped >= 0
           THEN SumSeq(prop.sizes) = PropAllowedSize
           ELSE /\ prop.sizes[1] = 0
                /\ SumSeq(prop.sizes) = PropAllowedSize - PropFirstUnclamped

\* replicas were removed with a leftover the first MachineSet could take
SizesSumUnlessClampedWitness ==
    /\ prop.pc = "done" /\ PropToAdd < 0 /\ PropLeftover < 0
    /\ PropFirstUnclamped >= 0
    /\ SumSeq(prop.sizes) = PropAllowedSize


(***************************************************************************)
(* gce provider: several instances with the Machine's UID label            *)
(*                                                                         *)
(* cloud.instances counts the instance under the Machine's name,           *)
(* cloud.labelled the instances under other names that carry the same UID  *)
(* label.  ret.matching is the number of instances with the label when the *)
(* operation was called, ret.deleted whether the operation had an instance *)
(* deleted.                                                                *)
(***************************************************************************)
MaxLabelled == 2            \* instances under other names with the Machine's UID label

\* gce get: Instances.List filtered by the UID label; none is
\* ErrInstanceNotFound, more than one a terminal error
gceGet(c) ==
    {[cloud |-> c, found |-> "error"]}
    \cup {[cloud |-> c,
           found |-> IF c.instances + c.labelled = 0 THEN "notFound"
                     ELSE IF c.instances + c.labelled > 1 THEN "error"
                     ELSE "instance"]}

InitConsistency ==
    /\ \E named \in 0..1, others \in 0..MaxLabelled :
          cloud = [NoCloud("gce") EXCEPT !.instances = named, !.labelled = others]
    /\ ret = [op |-> "none", done |-> FALSE, err |-> FALSE, matching |-> 0, deleted |-> FALSE]
    /\ creates = 0
    /\ d = "idle" /\ ms = "idle" /\ created = "idle" /\ machines = "idle" /\ changes = 0
    /\ DeleteIdle /\ CSRIdle /\ MachineIdle /\ UnitsIdle

GceGet ==
    /\ \E o \in gceGet(cloud) :
          /\ cloud' = o.cloud
          /\ ret' = [op |-> "Get", done |-> FALSE, err |-> o.found \in {"error", "notFound"},
                     matching |-> cloud.instances + cloud.labelled, deleted |-> FALSE]
    /\ UNCHANGED creates
    /\ UNCHANGED <<rolloutVars, deleteVars, csrVars, machineVars, unitVars>>

GceCreate ==
    /\ creates < MaxCreateCalls
    /\ \E o \in gceCreate(cloud) :
          /\ cloud' = o.cloud
          /\ ret' = [op |-> "Create", done |-> FALSE, err |-> o.err,
                     matching |-> cloud.instances + cloud.labelled, deleted |-> FALSE]
    /\ creates' = creates + 1
    /\ UNCHANGED <<rolloutVars, deleteVars, csrVars, machineVars, unitVars>>

GceCleanup ==
    /\ \E o \in gceCleanup(cloud) :
          /\ cloud' = o.cloud
          /\ ret' = [op |-> "Cleanup", done |-> o.done, err |-> o.err,
                     matching |-> cloud.instances + cloud.labelled,
                     deleted |-> \/ o.cloud.instances < cloud.instances
                                 \/ o.cloud.terminating > cloud.terminating]
    /\ UNCHANGED creates
    /\ UNCHANGED <<rolloutVars, deleteVars, csrVars, machineVars, unitVars>>

NextConsistency == GceGet \/ GceCreate \/ GceCleanup \/ CloudProgress

SpecConsistency == InitConsistency /\ [][NextConsistency]_vars

\* C27 (consistency error): an operation called while more than one cloud
\* instance carries the Machine's UID label returns an error and has no
\* instance deleted.
ConsistencyErrorStops ==
    (ret.op # "none" /\ ret.matching > 1) => (ret.err /\ ~ret.deleted)


(***************************************************************************)
(* MachineSet scale-down: Machines without a creation timestamp            *)
(***************************************************************************)
ZeroTimestampUnmarked(m) == IsUnmarked(m) /\ m.zeroTs

\* C28 (zero creation timestamp): under Oldest and Newest an unmarked Machine
\* with a zero creation timestamp has priority mustNotDelete, and it is
\* returned for deletion only when every candidate with a creation timestamp
\* is returned as well.
ZeroTimestampDeletedLast ==
    (del.done /\ del.policy \in {"Oldest", "Newest"}) =>
        /\ \A k \in DOMAIN del.machines :
              ZeroTimestampUnmarked(del.machines[k]) =>
                  priority(getDeletePriorityFunc(del.policy), del.machines[k])
                      = mustNotDelete * PriorityScale
        /\ CountIn(del.returned, ZeroTimestampUnmarked) > 0 =>
              CountIn(del.returned, LAMBDA m : ~m.zeroTs)
                  = CountIn(del.machines, LAMBDA m : ~m.zeroTs)


(***************************************************************************)
(* Rollout from an arbitrary state: the scale-up step                      *)
(***************************************************************************)
\* any MachineSets of any size, also beyond D + maxSurge (D or maxSurge was
\* lowered since they were scaled)
InitScaleUp ==
    /\ \E s \in Strategies, t0 \in Templates, crt \in CreationOrders,
          rep \in [Templates -> 0..(MaxReplicas + MaxSurgeBound)],
          avail \in [Templates -> 0..MaxReplicas] :
        /\ \A t \in Templates : t \notin Range(crt) => (rep[t] = 0 /\ avail[t] = 0)
        /\ \A t \in Templates : avail[t] <= rep[t]
        /\ d = [replicas |-> s.replicas, template |-> t0, revision |-> 0,
                maxSurge |-> s.maxSurge, maxUnavailable |-> s.maxUnavailable,
                revisionHistoryLimit |-> s.revisionHistoryLimit]
        /\ ms = [t \in Templates |->
                    IF t \in Range(crt)
                    THEN [exists |-> TRUE, replicas |-> rep[t], revision |-> IndexOf(crt, t),
                          availableReplicas |-> avail[t], statusReplicas |-> avail[t],
                          observed |-> TRUE, deletionTimestamp |-> FALSE]
                    ELSE NoMS]
        /\ created = crt
    /\ machines = [t \in Templates |-> NoMachines]
    /\ changes = 0
    /\ DeleteIdle /\ CSRIdle /\ ProviderIdle /\ MachineIdle /\ UnitsIdle

NextScaleUp == RolloutRolling

SpecScaleUp == InitScaleUp /\ [][NextScaleUp]_vars

NewReplicas == ms[d.template].replicas
Room == AllowedTotal - TotalReplicas

\* the step went past getNewMachineSet: the new MachineSet existed and its
\* annotations needed no update
ScaleUpStepTaken ==
    ms[d.template].exists /\ ms'[d.template].revision = ms[d.template].revision

\* C29 as stated: the new MachineSet stays at D, goes down to D, or goes to
\* min(newMS.spec.replicas + room, D).
ScaleUpStepAsStated ==
    [][ScaleUpStepTaken =>
          /\ ms'[d.template].replicas =
                IF NewReplicas >= d.replicas THEN d.replicas
                ELSE Min(NewReplicas + Room, d.replicas)
          /\ ms'[d.template].replicas <= d.replicas]_vars

\* C29 (scale-up step): reconcileNewMachineSet leaves newMS.spec.replicas
\* alone at D, sets it to D when it is above D, raises it to
\* min(newMS.spec.replicas + room, D) when it is below D and the MachineSets
\* hold at most D + maxSurge replicas (room >= 0), and does not raise it and
\* keeps it at 0 or more when they hold more; it never leaves it above D.
ScaleUpStep ==
    [][ScaleUpStepTaken =>
          /\ IF NewReplicas >= d.replicas THEN ms'[d.template].replicas = d.replicas
             ELSE IF Room >= 0
                  THEN ms'[d.template].replicas = Min(NewReplicas + Room, d.replicas)
                  ELSE /\ ms'[d.template].replicas <= NewReplicas
                       /\ ms'[d.template].replicas >= 0
          /\ ms'[d.template].replicas <= d.replicas]_vars

\* a reconcile has raised the new MachineSet as far as the surge allows, short
\* of D, while old MachineSets still hold replicas
ScaleUpStepWitness ==
    /\ d.revision > 0
    /\ ms[d.template].exists
    /\ 0 < ms[d.template].replicas /\ ms[d.template].replicas < d.replicas
    /\ OldReplicas > 0
    /\ TotalReplicas = AllowedTotal


(***************************************************************************)
(* Rollout: a failing cleanupUnhealthyReplicas                             *)
(*                                                                         *)
(* The API server accepts the first okUpdates MachineSet updates of the    *)
(* first scale-down pass and refuses the next one.  ret is what the        *)
(* reconcile did: the error rolloutRolling returned, the error of          *)
(* cleanupUnhealthyReplicas, whether the second pass ran and whether       *)
(* rolloutRolling went on to the completeness check.                       *)
(***************************************************************************)
\* cleanupUnhealthyReplicas with a failing update: err is "invalid" for an
\* invalid scale request, "update" for the refused update, "none" otherwise
RECURSIVE cleanupUnhealthyReplicasUpdateFails(_, _, _, _, _)
cleanupUnhealthyReplicasUpdateFails(msf, oldMSs, maxCleanupCount, totalScaledDown, okUpdates) ==
    IF oldMSs = <<>> \/ totalScaledDown >= maxCleanupCount
    THEN [ms |-> msf, count |-> totalScaledDown, err |-> "none"]
    ELSE LET targetMS == Head(oldMSs)
             oldMSReplicas == msf[targetMS].replicas
             oldMSAvailableReplicas == msf[targetMS].availableReplicas
             remainingCleanupCount == maxCleanupCount - totalScaledDown
             unhealthyCount == oldMSReplicas - oldMSAvailableReplicas
             scaledDownCount == Min(remainingCleanupCount, unhealthyCount)
             newReplicasCount == oldMSReplicas - scaledDownCount
         IN IF oldMSReplicas = 0 \/ oldMSReplicas = oldMSAvailableReplicas
            THEN cleanupUnhealthyReplicasUpdateFails(msf, Tail(oldMSs), maxCleanupCount,
                                                     totalScaledDown, okUpdates)
            ELSE IF newReplicasCount > oldMSReplicas
            THEN [ms |-> msf, count |-> 0, err |-> "invalid"]
            ELSE IF okUpdates = 0
            THEN [ms |-> msf, count |-> totalScaledDown, err |-> "update"]
            ELSE cleanupUnhealthyReplicasUpdateFails(
                     scaleMachineSet(msf, targetMS, newReplicasCount), Tail(oldMSs),
                     maxCleanupCount, totalScaledDown + scaledDownCount, okUpdates - 1)

\* a reconcileOldMachineSets that hands the error of the first pass on
reconcileOldMachineSetsPropagate(dep, msf, allMSs, oldMSs, newMS, okUpdates) ==
    LET oldMachinesCount == GetReplicaCountForMachineSets(msf, oldMSs)
        allMachinesCount == GetReplicaCountForMachineSets(msf, allMSs)
        minAvailable == dep.replicas - MaxUnavailable(dep)
        newMSUnavailableMachineCount == msf[newMS].replicas - msf[newMS].availableReplicas
        maxScaledDown == allMachinesCount - minAvailable - newMSUnavailableMachineCount
        quiet == [ms |-> msf, err |-> FALSE, cleanupErr |-> "none", secondPass |-> FALSE]
    IN IF oldMachinesCount = 0 THEN quiet
       ELSE IF maxScaledDown <= 0 THEN quiet
       ELSE LET c == cleanupUnhealthyReplicasUpdateFails(msf, oldMSs, maxScaledDown, 0, okUpdates)
            IN IF c.err # "none"
               THEN [ms |-> c.ms, err |-> TRUE, cleanupErr |-> c.err, secondPass |-> FALSE]
               ELSE [ms |-> scaleDownOldMachineSetsForRollingUpdate(dep, c.ms, allMSs, oldMSs),
                     err |-> FALSE, cleanupErr |-> "none", secondPass |-> TRUE]

\* reconcileOldMachineSets with what it returns: an error of the first pass
\* ends it with nil
reconcileOldMachineSetsOutcome(dep, msf, allMSs, oldMSs, newMS, okUpdates) ==
    LET oldMachinesCount == GetReplicaCountForMachineSets(msf, oldMSs)
        allMachinesCount == GetReplicaCountForMachineSets(msf, allMSs)
        minAvailable == dep.replicas - MaxUnavailable(dep)
        newMSUnavailableMachineCount == msf[newMS].replicas - msf[newMS].availableReplicas
        maxScaledDown == allMachinesCount - minAvailable - newMSUnavailableMachineCount
        quiet == [ms |-> msf, err |-> FALSE, cleanupErr |-> "none", secondPass |-> FALSE]
    IN IF oldMachinesCount = 0 THEN quiet
       ELSE IF maxScaledDown <= 0 THEN quiet
       ELSE LET c == cleanupUnhealthyReplicasUpdateFails(msf, oldMSs, maxScaledDown, 0, okUpdates)
            IN IF c.err # "none"
               THEN [ms |-> c.ms, err |-> FALSE, cleanupErr |-> c.err, secondPass |-> FALSE]
               ELSE [ms |-> scaleDownOldMachineSetsForRollingUpdate(dep, c.ms, allMSs, oldMSs),
                     err |-> FALSE, cleanupErr |-> "none", secondPass |-> TRUE]

NoReconcile ==
    [err |-> FALSE, cleanupErr |-> "none", secondPass |-> FALSE, continued |-> FALSE]

\* MachineSets of any size within the surge budget, with any status
InitScaleDownError ==
    /\ \E s \in Strategies, t0 \in Templates, crt \in CreationOrders,
          rep \in [Templates -> 0..(MaxReplicas + MaxSurgeBound)],
          avail \in [Templates -> 0..MaxReplicas] :
        /\ \A t \in Templates : t \notin Range(crt) => (rep[t] = 0 /\ avail[t] = 0)
        /\ SumSeq([i \in 1..NumTemplates |-> rep[i]]) <= s.replicas + s.maxSurge
        /\ d = [replicas |-> s.replicas, template |-> t0, revision |-> 0,
                maxSurge |-> s.maxSurge, maxUnavailable |-> s.maxUnavailable,
                revisionHistoryLimit |-> s.revisionHistoryLimit]
        /\ ms = [t \in Templates |->
                    IF t \in Range(crt)
                    THEN [exists |-> TRUE, replicas |-> rep[t], revision |-> IndexOf(crt, t),
                          availableReplicas |-> avail[t], statusReplicas |-> avail[t],
                          observed |-> TRUE, deletionTimestamp |-> FALSE]
                    ELSE NoMS]
        /\ created = crt
    /\ machines = [t \in Templates |-> NoMachines]
    /\ changes = 0
    /\ cloud = "idle" /\ creates = 0
    /\ ret = NoReconcile
    /\ DeleteIdle /\ CSRIdle /\ MachineIdle /\ UnitsIdle

\* rolloutRolling: one reconcile in which the API server refuses a MachineSet
\* update of the first scale-down pass after okUpdates of them
RolloutRollingUpdateFails ==
    \E g \in {getNewMachineSet(d, ms, created)} :
    \E oldMSs \in {FindOldMachineSets(d, g.created)} :
    \E okUpdates \in 0..Len(oldMSs) :
    \E allMSs \in {IF g.newMS = 0 THEN oldMSs ELSE Append(oldMSs, g.newMS)} :
    \E scaledUp \in {IF g.newMS = 0 THEN g.ms
                     ELSE reconcileNewMachineSet(g.dep, g.ms, allMSs, g.newMS)} :
    \E o \in {IF g.newMS = 0
              THEN [ms |-> scaledUp, err |-> FALSE, cleanupErr |-> "none", secondPass |-> FALSE]
              ELSE reconcileOldMachineSetsOutcome(g.dep, scaledUp, allMSs, oldMSs,
                                                  g.newMS, okUpdates)} :
    \E c \in {IF /\ g.newMS # 0 /\ ~o.err
                 /\ DeploymentComplete(g.dep, calculateStatus(o.ms, allMSs, g.newMS))
              THEN cleanupDeployment(g.dep, o.ms, g.created, oldMSs)
              ELSE [ms |-> o.ms, created |-> g.created]} :
       /\ d' = g.dep
       /\ ms' = c.ms
       /\ created' = c.created
       /\ machines' = [t \in Templates |-> IF c.ms[t].exists THEN machines[t] ELSE NoMachines]
       /\ ret' = [err |-> o.err, cleanupErr |-> o.cleanupErr, secondPass |-> o.secondPass,
                  continued |-> g.newMS # 0 /\ ~o.err]
       /\ UNCHANGED <<changes, cloud, creates>>
       /\ UNCHANGED <<deleteVars, csrVars, machineVars, unitVars>>

NextScaleDownError ==
    \/ RolloutRollingUpdateFails
    \/ \E t \in Templates : StatusChange(t)

SpecScaleDownError == InitScaleDownError /\ [][NextScaleDownError]_vars

\* C30 (swallowed scale-down error): when cleanupUnhealthyReplicas fails, on
\* a refused MachineSet update or on an invalid scale request,
\* reconcileOldMachineSets returns nil: rolloutRolling gets no error, the
\* second scale-down pass does not run in that reconcile, and rolloutRolling
\* goes on to the completeness check.
CleanupErrorSwallowed ==
    ret.cleanupErr # "none" => (~ret.err /\ ~ret.secondPass /\ ret.continued)

\* a reconcile in which a MachineSet update of the first pass was refused
CleanupErrorSwallowedWitness ==
    /\ ret.cleanupErr = "update"
    /\ ret.continued
    /\ OldReplicas > 0

\* the first pass with every update accepted is cleanupUnhealthyReplicas
CleanupOutcomesAgree ==
    \A k \in 1..3 :
       \E oldMSs \in {FindOldMachineSets(d, created)} :
          LET a == cleanupUnhealthyReplicasUpdateFails(ms, oldMSs, k, 0, Len(oldMSs))
              b == cleanupUnhealthyReplicas(ms, oldMSs, k, 0)
          IN a.ms = b.ms /\ a.count = b.count /\ (a.err # "none") = b.err


(***************************************************************************)
(* Rollout: the two scale-down passes of reconcileOldMachineSets           *)
(*                                                                         *)
(* sd.ms maps a MachineSet to its spec.replicas and status; the old        *)
(* MachineSets are numbered in ascending creationTimestamp (ties by name), *)
(* the new MachineSet is number 0.  sd.oldMSs is the list handed to        *)
(* reconcileOldMachineSets, in any order.  sd.writes are the updates the   *)
(* passes made, in the order they made them.                               *)
(***************************************************************************)
MaxSdSets == 2              \* old MachineSets handed to reconcileOldMachineSets
MaxSdReplicas == 2          \* spec.replicas and status.availableReplicas range over 0..MaxSdReplicas

exceptSd == <<stackVars, nms, cfg, occ, mset, evi, join, cln, nd, gn, st, av, prop, upd, adm>>

\* a sort that leaves the list as it is
MachineSetsByCreationTimestampKeep(sets) == sets

\* sort.Sort(MachineSetsByCreationTimestamp(...)): ascending creationTimestamp
RECURSIVE MachineSetsByCreationTimestamp(_)
MachineSetsByCreationTimestamp(sets) ==
    IF sets = <<>> THEN <<>>
    ELSE LET rest == MachineSetsByCreationTimestamp(Tail(sets))
             x == Head(sets)
         IN SelectSeq(rest, LAMBDA y : y < x) \o <<x>> \o SelectSeq(rest, LAMBDA y : ~(y < x))

\* a check that lets every scale request pass
invalidScaleRequestNever(newReplicasCount, replicas) == FALSE

\* newReplicasCount > replicas: "got invalid request to scale down"
invalidScaleRequest(newReplicasCount, replicas) == newReplicasCount > replicas

\* the loop of cleanupUnhealthyReplicas over the sorted list
RECURSIVE cleanupUnhealthyLoop(_, _, _, _, _)
cleanupUnhealthyLoop(msf, sorted, maxCleanupCount, totalScaledDown, writes) ==
    IF sorted = <<>> \/ totalScaledDown >= maxCleanupCount
    THEN [ms |-> msf, count |-> totalScaledDown, err |-> FALSE, writes |-> writes]
    ELSE LET targetMS == Head(sorted)
             oldMSReplicas == msf[targetMS].replicas
             oldMSAvailableReplicas == msf[targetMS].availableReplicas
             remainingCleanupCount == maxCleanupCount - totalScaledDown
             unhealthyCount == oldMSReplicas - oldMSAvailableReplicas
             scaledDownCount == Min(remainingCleanupCount, unhealthyCount)
             newReplicasCount == oldMSReplicas - scaledDownCount
         IN IF oldMSReplicas = 0 \/ oldMSReplicas = oldMSAvailableReplicas
            THEN cleanupUnhealthyLoop(msf, Tail(sorted), maxCleanupCount, totalScaledDown, writes)
            ELSE IF invalidScaleRequest(newReplicasCount, oldMSReplicas)
            THEN [ms |-> msf, count |-> 0, err |-> TRUE, writes |-> writes]
            ELSE cleanupUnhealthyLoop(
                     scaleMachineSet(msf, targetMS, newReplicasCount), Tail(sorted),
                     maxCleanupCount, totalScaledDown + scaledDownCount,
                     Append(writes, [pass |-> 1, target |-> targetMS,
                                     before |-> oldMSReplicas, after |-> newReplicasCount]))

\* the loop of scaleDownOldMachineSetsForRollingUpdate over the sorted list
RECURSIVE scaleDownWritesLoop(_, _, _, _, _)
scaleDownWritesLoop(msf, sorted, totalScaleDownCount, totalScaledDown, writes) ==
    IF sorted = <<>> \/ totalScaledDown >= totalScaleDownCount
    THEN [ms |-> msf, writes |-> writes]
    ELSE LET targetMS == Head(sorted)
             scaleDownCount == Min(msf[targetMS].replicas, totalScaleDownCount - totalScaledDown)
             newReplicasCount == msf[targetMS].replicas - scaleDownCount
         IN IF msf[targetMS].replicas = 0
            THEN scaleDownWritesLoop(msf, Tail(sorted), totalScaleDownCount, totalScaledDown, writes)
            ELSE IF invalidScaleRequest(newReplicasCount, msf[targetMS].replicas)
            THEN [ms |-> msf, writes |-> writes]
            ELSE scaleDownWritesLoop(
                     scaleMachineSet(msf, targetMS, newReplicasCount), Tail(sorted),
                     totalScaleDownCount, totalScaledDown + scaleDownCount,
                     Append(writes, [pass |-> 2, target |-> targetMS,
                                     before |-> msf[targetMS].replicas,
                                     after |-> newReplicasCount]))

\* a second pass that may take every available Machine
totalScaleDownCountAll(availableMachineCount, minAvailable) == availableMachineCount

\* totalScaleDownCount := availableMachineCount - minAvailable
totalScaleDownCount(availableMachineCount, minAvailable) == availableMachineCount - minAvailable

\* reconcileOldMachineSets with the updates it makes, in order
reconcileOldMachineSetsWrites(dep, msf, allMSs, oldMSs, newMS) ==
    LET oldMachinesCount == GetReplicaCountForMachineSets(msf, oldMSs)
        allMachinesCount == GetReplicaCountForMachineSets(msf, allMSs)
        minAvailable == dep.replicas - MaxUnavailable(dep)
        newMSUnavailableMachineCount == msf[newMS].replicas - msf[newMS].availableReplicas
        maxScaledDown == allMachinesCount - minAvailable - newMSUnavailableMachineCount
    IN IF oldMachinesCount = 0 \/ maxScaledDown <= 0 THEN [ms |-> msf, writes |-> <<>>]
       ELSE LET c == cleanupUnhealthyLoop(msf, MachineSetsByCreationTimestamp(oldMSs),
                                          maxScaledDown, 0, <<>>)
                availableMachineCount == GetAvailableReplicaCountForMachineSets(c.ms, allMSs)
            IN IF c.err THEN [ms |-> c.ms, writes |-> c.writes]
               ELSE IF availableMachineCount <= minAvailable
               THEN [ms |-> c.ms, writes |-> c.writes]
               ELSE scaleDownWritesLoop(c.ms, MachineSetsByCreationTimestamp(oldMSs),
                                        totalScaleDownCount(availableMachineCount, minAvailable),
                                        0, c.writes)

\* the lists of n different old MachineSets, in every order
OldMSLists(n) == {l \in [1..n -> 1..n] : \A i, j \in 1..n : l[i] = l[j] => i = j}

SdMachineSet(r, a) ==
    [exists |-> TRUE, replicas |-> r, revision |-> 0, availableReplicas |-> a,
     statusReplicas |-> a, observed |-> TRUE, deletionTimestamp |-> FALSE]

InitScaleDown ==
    /\ \E n \in 1..MaxSdSets :
       \E list \in OldMSLists(n),
          rep \in [0..n -> 0..MaxSdReplicas], avail \in [0..n -> 0..MaxSdReplicas],
          D \in 1..MaxReplicas, U \in 0..MaxUnavailableBound :
          sd = [dep |-> [replicas |-> D, template |-> 0, revision |-> 0,
                         maxSurge |-> 0, maxUnavailable |-> U,
                         revisionHistoryLimit |-> 0],
                ms |-> [t \in 0..n |-> SdMachineSet(rep[t], avail[t])],
                before |-> [t \in 0..n |-> SdMachineSet(rep[t], avail[t])],
                oldMSs |-> list, writes |-> <<>>, pc |-> "start"]
    /\ StackIdle
    /\ nms = "idle" /\ cfg = "idle" /\ occ = "idle" /\ mset = "idle"
    /\ evi = "idle" /\ join = "idle" /\ cln = "idle"
    /\ nd = "idle" /\ gn = "idle" /\ st = "idle" /\ av = "idle" /\ prop = "idle"
    /\ upd = "idle" /\ adm = "idle"

ReconcileOldMachineSets ==
    /\ sd.pc = "start"
    /\ \E o \in {reconcileOldMachineSetsWrites(sd.dep, sd.ms, Append(sd.oldMSs, 0),
                                               sd.oldMSs, 0)} :
          sd' = [sd EXCEPT !.ms = o.ms, !.writes = o.writes, !.pc = "done"]
    /\ UNCHANGED exceptSd

NextScaleDown == ReconcileOldMachineSets

SpecScaleDown == InitScaleDown /\ [][NextScaleDown]_vars


WritesOfPass(p) == SelectSeq(sd.writes, LAMBDA w : w.pass = p)
Ascending(ws) == \A i, j \in 1..Len(ws) : i < j => ws[i].target < ws[j].target

\* C31 (scale-down order): in each pass the updates go through the old
\* MachineSets in ascending creation time, whatever the order of the list
\* handed in; a MachineSet with zero replicas is never updated; and when the
\* second pass lowers an old MachineSet, every older old MachineSet is at 0.
ScaleDownOrder ==
    sd.pc = "done" =>
        /\ Ascending(WritesOfPass(1)) /\ Ascending(WritesOfPass(2))
        /\ \A i \in 1..Len(sd.writes) :
              sd.writes[i].before > 0 /\ sd.writes[i].after < sd.writes[i].before
        /\ \A i \in 1..Len(sd.writes) :
              sd.writes[i].pass = 2 =>
                 \A t \in Range(sd.oldMSs) :
                    t < sd.writes[i].target => sd.ms[t].replicas = 0

\* the list came newest first, and the second pass lowered the older
\* MachineSet to 0 and then the newer one
ScaleDownOrderWitness ==
    /\ sd.pc = "done"
    /\ Len(sd.oldMSs) > 1 /\ sd.oldMSs[1] > sd.oldMSs[2]
    /\ \E i, j \in 1..Len(sd.writes) :
          /\ i < j
          /\ sd.writes[i].pass = 2 /\ sd.writes[j].pass = 2
          /\ sd.writes[i].after = 0

\* the final MachineSets are those of reconcileOldMachineSets of the rollout
\* model on the sorted list
ScaleDownOutcomesAgree ==
    sd.pc = "done" =>
       \E sorted \in {MachineSetsByCreationTimestamp(sd.oldMSs)} :
          sd.ms = reconcileOldMachineSets(sd.dep, sd.before, Append(sorted, 0), sorted, 0)


RECURSIVE SdReduction(_)
SdReduction(list) ==
    IF list = <<>> THEN 0
    ELSE (sd.before[Head(list)].replicas - sd.ms[Head(list)].replicas)
         + SdReduction(Tail(list))

SdAllMSs == Append(sd.oldMSs, 0)
SdMinAvailable == sd.dep.replicas - MaxUnavailable(sd.dep)
SdMaxScaledDown ==
    GetReplicaCountForMachineSets(sd.before, SdAllMSs) - SdMinAvailable
        - (sd.before[0].replicas - sd.before[0].availableReplicas)
SdOldWithinSpec ==
    \A t \in Range(sd.oldMSs) : sd.before[t].availableReplicas <= sd.before[t].replicas

ScaleDownNeverRaises ==
    sd.pc = "done" =>
        /\ \A i \in 1..Len(sd.writes) :
              0 <= sd.writes[i].after /\ sd.writes[i].after <= sd.writes[i].before
        /\ \A t \in Range(sd.oldMSs) :
              0 <= sd.ms[t].replicas /\ sd.ms[t].replicas <= sd.before[t].replicas

\* an old MachineSet with stale availability came first: an older one was
\* cleaned up before it and the stale one kept its size
ScaleDownNeverRaisesWitness ==
    /\ sd.pc = "done"
    /\ \E t \in Range(sd.oldMSs) :
          /\ sd.before[t].availableReplicas > sd.before[t].replicas
          /\ sd.before[t].replicas > 0
          /\ sd.ms[t].replicas = sd.before[t].replicas
    /\ sd.writes # <<>>



(***************************************************************************)
(* MachineSet scale-down after the unhealthy-cleanup pass                  *)
(***************************************************************************)
\* the Machines of an old MachineSet: no marks, a creation timestamp, a Node
\* that is available or not
CleanupCandidateMachines ==
    {[Unmarked(FALSE, age) EXCEPT !.available = a] :
        age \in 1..MaxYoungAge, a \in BOOLEAN}

CountUnavailable(list) == Len(list) - CountAvailable(list)

\* an old MachineSet with u unavailable Machines has been scaled down by
\* k <= u replicas (cleanupUnhealthyReplicas: scaledDownCount is at most
\* replicas - availableReplicas)
InitCleanupDelete ==
    /\ \E policy \in DeletePolicies, n \in 2..MaxCandidates :
       \E list \in [1..n -> CleanupCandidateMachines] :
       \E k \in 1..CountUnavailable(list) :
          del = [policy |-> policy, machines |-> list, diff |-> k,
                 returned |-> <<>>, done |-> FALSE]
    /\ d = "idle" /\ ms = "idle" /\ created = "idle" /\ machines = "idle" /\ changes = 0
    /\ CSRIdle /\ ProviderIdle /\ MachineIdle /\ UnitsIdle

NextCleanupDelete == SelectMachinesToDelete

SpecCleanupDelete == InitCleanupDelete /\ [][NextCleanupDelete]_vars

\* C32 (unhealthy cleanup deletes unavailable Machines): when an old
\* MachineSet with u unavailable Machines is scaled down by k <= u, the
\* Machines chosen for deletion are all unavailable, under every delete policy.
CleanupDeletesOnlyUnavailable ==
    del.done => CountAvailable(del.returned) = 0



(***************************************************************************)
(* Rollout: old MachineSets are deleted only by a complete rollout         *)
(***************************************************************************)
OldSetDeleted == \E t \in Templates : ms[t].exists /\ ~ms'[t].exists

\* the deployment status the reconcile computes from the MachineSets' status
\* fields, which the deployment controller only reads
UpdatedReplicasSeen == IF ms'[d.template].exists THEN ms'[d.template].statusReplicas ELSE 0 - 1
AvailableReplicasSeen ==
    SumSeq([i \in 1..NumTemplates |-> IF ms[i].exists THEN ms[i].availableReplicas ELSE 0])

\* C33 (history cleanup waits for completion): a reconcile deletes an old
\* MachineSet only if the status it recomputed has updatedReplicas = D and
\* availableReplicas = D; while the rollout is incomplete none is deleted.
CleanupOnlyWhenComplete ==
    [][OldSetDeleted =>
          /\ UpdatedReplicasSeen = d.replicas
          /\ AvailableReplicasSeen = d.replicas]_vars

\* a rollout to another template has finished and the first MachineSet is gone
CleanupOnlyWhenCompleteWitness ==
    /\ ~ms[1].exists
    /\ d.template # 1 /\ ms[d.template].exists
    /\ ms[d.template].statusReplicas = d.replicas
    /\ ms[d.template].availableReplicas = d.replicas



(***************************************************************************)
(* updateMachineDeployment next to another writer                          *)
(*                                                                         *)
(* upd.server is the MachineDeployment in the API server, upd.d the object *)
(* the reconciler holds, upd.newRevision the revision its modification     *)
(* sets, upd.last the spec.replicas the other writer wrote last.           *)
(***************************************************************************)
DefaultBackoffSteps == 4    \* retry.DefaultBackoff: the attempts of RetryOnConflict
MaxOtherWrites == 4         \* writes of the other writer in one behaviour
MaxUpdReplicas == 2         \* spec.replicas ranges over 1..MaxUpdReplicas
MaxUpdRevision == 2         \* the revision annotation ranges over 1..MaxUpdRevision

exceptUpd == <<stackVars, nms, cfg, occ, mset, evi, join, cln, nd, gn, st, av, prop, sd, adm>>

\* an Update that the API server accepts whatever resourceVersion it carries
clientUpdateUnguarded(server, obj) ==
    [server |-> [obj EXCEPT !.resourceVersion = server.resourceVersion + 1], err |-> FALSE]

\* c.Update(ctx, d): accepted only with the resourceVersion the server has
clientUpdate(server, obj) ==
    IF obj.resourceVersion = server.resourceVersion
    THEN [server |-> [obj EXCEPT !.resourceVersion = server.resourceVersion + 1], err |-> FALSE]
    ELSE [server |-> server, err |-> TRUE]

\* PopulateDefaultsMachineDeployment: fills the fields that are not set
PopulateDefaultsMachineDeployment(obj) == [obj EXCEPT !.defaulted = TRUE]

InitUpdate ==
    /\ \E n \in 1..MaxUpdReplicas, rev \in 1..MaxUpdRevision, new \in 1..MaxUpdRevision,
          df \in BOOLEAN :
          upd = [server |-> [replicas |-> n, revision |-> rev, defaulted |-> df,
                             resourceVersion |-> 1],
                 d |-> [replicas |-> n, revision |-> rev, defaulted |-> df,
                        resourceVersion |-> 1],
                 newRevision |-> new, last |-> n, others |-> 0,
                 attempts |-> 0, pc |-> "read", result |-> "none"]
    /\ StackIdle
    /\ nms = "idle" /\ cfg = "idle" /\ occ = "idle" /\ mset = "idle"
    /\ evi = "idle" /\ join = "idle" /\ cln = "idle"
    /\ nd = "idle" /\ gn = "idle" /\ st = "idle" /\ av = "idle" /\ prop = "idle"
    /\ sd = "idle" /\ adm = "idle"

\* another writer (a user, an autoscaler) changes spec.replicas
OtherWriter ==
    /\ upd.others < MaxOtherWrites
    /\ \E n \in 1..MaxUpdReplicas :
          /\ n # upd.server.replicas
          /\ upd' = [upd EXCEPT !.server.replicas = n,
                                !.server.resourceVersion = @ + 1,
                                !.last = n, !.others = @ + 1]
    /\ UNCHANGED exceptUpd

\* dCopy := d.DeepCopy(); modify(dCopy); nothing to do when it equals d
UpdateBegin ==
    /\ upd.pc = "read"
    /\ upd' = IF SetDeploymentRevision(upd.d, upd.newRevision) = upd.d
              THEN [upd EXCEPT !.pc = "done", !.result = "noop"]
              ELSE [upd EXCEPT !.pc = "get"]
    /\ UNCHANGED exceptUpd

\* one attempt, first half: Get the latest version, apply defaults, modify
UpdateGet ==
    /\ upd.pc = "get"
    /\ upd' = [upd EXCEPT
                 !.d = SetDeploymentRevision(PopulateDefaultsMachineDeployment(upd.server),
                                             upd.newRevision),
                 !.pc = "update"]
    /\ UNCHANGED exceptUpd

\* one attempt, second half: Update; a conflict is retried while the backoff
\* has steps left
UpdateWrite ==
    /\ upd.pc = "update"
    /\ \E w \in {clientUpdate(upd.server, upd.d)} :
          upd' = IF ~w.err
                 THEN [upd EXCEPT !.server = w.server, !.d = w.server,
                                  !.attempts = @ + 1, !.pc = "done", !.result = "ok"]
                 ELSE IF upd.attempts + 1 < DefaultBackoffSteps
                 THEN [upd EXCEPT !.attempts = @ + 1, !.pc = "get"]
                 ELSE [upd EXCEPT !.attempts = @ + 1, !.pc = "done", !.result = "conflict"]
    /\ UNCHANGED exceptUpd

NextUpdate == OtherWriter \/ UpdateBegin \/ UpdateGet \/ UpdateWrite

SpecUpdate == InitUpdate /\ [][NextUpdate]_vars

\* C36 (no lost update): the spec.replicas in the API server is always the
\* value the other writer wrote last, and a successful updateMachineDeployment
\* leaves its own modification on top of it.
OtherWriterNeverOverwritten ==
    /\ upd.server.replicas = upd.last
    /\ upd.result = "ok" => upd.server.revision = upd.newRevision

\* the other writer changed spec.replicas after the reconciler's read and
\* again between a Get and its Update; the retry wrote the revision
OtherWriterNeverOverwrittenWitness ==
    /\ upd.result = "ok" /\ upd.attempts > 1
    /\ upd.others > 0
    /\ upd.server.replicas = upd.last
    /\ upd.server.revision = upd.newRevision


\* every attempt met a conflict and the call returned the conflict
UpdateGaveUp == upd.result = "conflict" /\ upd.attempts = DefaultBackoffSteps



(***************************************************************************)
(* anexia: Create calls of one Machine and the provisioning requests sent  *)
(*                                                                         *)
(* ret.persisted tells whether the Machine's provider status held a        *)
(* provisioning ID when the call began, ret.sent how many provisioning     *)
(* requests the call sent.                                                 *)
(***************************************************************************)
InitProvision ==
    /\ cloud = NoCloud("anexia")
    /\ ret = [op |-> "none", done |-> FALSE, err |-> FALSE, persisted |-> FALSE, sent |-> 0]
    /\ creates = 0
    /\ d = "idle" /\ ms = "idle" /\ created = "idle" /\ machines = "idle" /\ changes = 0
    /\ DeleteIdle /\ CSRIdle /\ MachineIdle /\ UnitsIdle

\* the machine controller calls Create: the first time, after an error, or
\* on a requeue while the VM is not yet running
ProvisionCreate ==
    /\ creates < MaxCreateCalls + 1
    /\ \E o \in anexiaCreate(cloud) :
          /\ cloud' = o.cloud
          /\ ret' = [op |-> "Create", done |-> FALSE, err |-> o.err,
                     persisted |-> cloud.status.provisioningID,
                     sent |-> Instances(o.cloud) - Instances(cloud)]
    /\ creates' = creates + 1
    /\ UNCHANGED <<rolloutVars, deleteVars, csrVars, machineVars, unitVars>>

\* the Machine is being deleted: Cleanup looks the VM up and deprovisions it
ProvisionCleanup ==
    /\ \E o \in anexiaCleanup(cloud) :
          /\ cloud' = o.cloud
          /\ ret' = [op |-> "Cleanup", done |-> o.done, err |-> o.err,
                     persisted |-> cloud.status.provisioningID, sent |-> 0]
    /\ UNCHANGED creates
    /\ UNCHANGED <<rolloutVars, deleteVars, csrVars, machineVars, unitVars>>

NextProvision == ProvisionCreate \/ ProvisionCleanup \/ CloudProgress

SpecProvision == InitProvision /\ [][NextProvision]_vars

\* C37 (provisioning at most once): a Create call that finds a provisioning
\* ID in the Machine's provider status sends no provisioning request.
ProvisionedAtMostOnce ==
    (ret.op = "Create" /\ ret.persisted) => ret.sent = 0

\* the first Create provisioned and stored the ID, a later one only looked
\* the VM up
ProvisionedAtMostOnceWitness ==
    /\ ret.op = "Create" /\ ret.persisted /\ ret.sent = 0
    /\ creates > 1
    /\ cloud.instances = 1 /\ cloud.untracked = 0



(***************************************************************************)
(* Node CSR approver: CSRs that carry conditions already                   *)
(*                                                                         *)
(* csr.conditions are the condition types in status.conditions of the CSR  *)
(* in the API server, csr.before those it had when the reconcile began.    *)
(***************************************************************************)
ConditionTypes == {"Approved", "Denied", "Failed"}

ServingRequest ==
    [blocks |-> 1,
     der |-> [parsable |-> TRUE, cn |-> NodeUsername, organization |-> <<nodeGroup>>,
              dnsNames |-> {NodeName}, ipAddresses |-> {"10.0.0.1"}]]

\* the CSR of node-1 for its serving certificate, and CSRs that fail one of
\* the validations
ConditionCSRs ==
    LET good == [username |-> NodeUsername, groups |-> {nodeGroup, authenticatedGroup},
                 usages |-> allowedUsages, request |-> ServingRequest]
    IN {good,
        [good EXCEPT !.username = [prefix |-> "", rest |-> "admin"]],
        [good EXCEPT !.usages = {"client auth"}],
        [good EXCEPT !.request = [blocks |-> 1, der |-> Garbage]],
        [good EXCEPT !.request.der.dnsNames = {"evil.example"}]}

\* the loop over csr.Status.Conditions at the head of reconcile
alreadyApproved(conditions) == "Approved" \in conditions

InitCSRConditions ==
    /\ \E obj \in ConditionCSRs, conditions \in SUBSET ConditionTypes, bound \in BOOLEAN :
          csr = [obj |-> obj, conditions |-> conditions, bound |-> bound,
                 before |-> conditions, result |-> "none"]
    /\ d = "idle" /\ ms = "idle" /\ created = "idle" /\ machines = "idle" /\ changes = 0
    /\ DeleteIdle /\ ProviderIdle /\ MachineIdle /\ UnitsIdle

\* Reconcile of the CSR: when every validation passes, the Approved
\* condition is appended and sent with UpdateApproval, which the API server
\* accepts or refuses
CSRConditionsReconcile ==
    /\ csr.result = "none"
    /\ \E r \in {reconcile([username |-> csr.obj.username, groups |-> csr.obj.groups,
                            usages |-> csr.obj.usages, request |-> csr.obj.request,
                            approved |-> alreadyApproved(csr.conditions)], csr.bound)} :
       \E accepted \in BOOLEAN :
          csr' = IF alreadyApproved(csr.conditions) \/ ~r.approved
                 THEN [csr EXCEPT !.result = r.result]
                 ELSE IF accepted
                 THEN [csr EXCEPT !.conditions = @ \cup {"Approved"}, !.result = "nil"]
                 ELSE [csr EXCEPT !.result = "error"]
    /\ UNCHANGED <<rolloutVars, deleteVars, providerVars, machineVars, unitVars>>

NextCSRConditions == CSRConditionsReconcile

SpecCSRConditions == InitCSRConditions /\ [][NextCSRConditions]_vars

\* C38 (no approval after denial or failure): a CSR that carried a Denied or
\* a Failed condition when the reconcile began has no Approved condition
\* added by it.
DeniedOrFailedNeverApproved ==
    (csr.before \cap {"Denied", "Failed"} # {} /\ "Approved" \notin csr.before)
        => "Approved" \notin csr.conditions



(***************************************************************************)
(* Admission: validation of a MachineDeployment spec                       *)
(*                                                                         *)
(* A pointer field is a record with `set`; an IntOrString is an int, a     *)
(* percentage or a string that is neither.  The result of a validation is  *)
(* the list of the fields found invalid, or a panic of the validator.      *)
(***************************************************************************)
MaxAdmReplicas == 1         \* spec.replicas, when set, ranges over -1..MaxAdmReplicas

exceptAdm == <<stackVars, nms, cfg, occ, mset, evi, join, cln, nd, gn, st, av, prop, sd, upd>>

Nil == [set |-> FALSE, kind |-> "int", n |-> 0]
IntOrStrings ==
    {[set |-> TRUE, kind |-> "int", n |-> n] : n \in {0 - 1, 0, 1}}
    \cup {[set |-> TRUE, kind |-> "percent", n |-> n] : n \in {0, 50, 150}}
    \cup {[set |-> TRUE, kind |-> "garbage", n |-> 0]}

\* intstr.GetValueFromIntOrPercent(s, 100, roundUp)
getIntOrPercent(s, roundUp) ==
    IF s.kind = "garbage" THEN [value |-> 0, err |-> TRUE]
    ELSE [value |-> s.n, err |-> FALSE]

validatePositiveIntOrPercent(s, fld) ==
    LET x == getIntOrPercent(s, FALSE)
    IN IF x.err THEN <<fld>>
       ELSE IF x.value < 0 THEN <<fld>>
       ELSE <<>>

validateMachineRollingUpdateDeployment(rollingUpdate) ==
    LET maxUnavailable == IF rollingUpdate.maxUnavailable.set
                          THEN getIntOrPercent(rollingUpdate.maxUnavailable, FALSE).value ELSE 0
        maxSurge == IF rollingUpdate.maxSurge.set
                    THEN getIntOrPercent(rollingUpdate.maxSurge, TRUE).value ELSE 0
    IN (IF rollingUpdate.maxUnavailable.set
        THEN validatePositiveIntOrPercent(rollingUpdate.maxUnavailable, "maxUnavailable")
             \o (IF rollingUpdate.maxUnavailable.kind = "percent" /\ maxUnavailable > 100
                 THEN <<"maxUnavailable">> ELSE <<>>)
        ELSE <<>>)
       \o (IF rollingUpdate.maxSurge.set
           THEN validatePositiveIntOrPercent(rollingUpdate.maxSurge, "maxSurge")
           ELSE <<>>)
       \o (IF /\ rollingUpdate.maxUnavailable.set /\ rollingUpdate.maxSurge.set
              /\ maxUnavailable = 0 /\ maxSurge = 0
           THEN <<"maxUnavailable">> ELSE <<>>)

\* strategy.Type dereferences the pointer: a nil strategy panics
validateMachineDeploymentStrategy(strategy) ==
    IF ~strategy.set THEN [panic |-> TRUE, errs |-> <<>>]
    ELSE IF strategy.type = "RollingUpdate"
    THEN [panic |-> FALSE,
          errs |-> IF strategy.rollingUpdate.set
                   THEN validateMachineRollingUpdateDeployment(strategy.rollingUpdate)
                   ELSE <<>>]
    ELSE [panic |-> FALSE, errs |-> <<"Type">>]

\* ValidateLabelSelector, the empty-selector check, LabelSelectorAsSelector
\* and the match against the template labels
validateSelector(selector) ==
    CASE selector = "invalid"     -> <<"selector", "selector">>
      [] selector = "empty"       -> <<"selector">>
      [] selector = "notMatching" -> <<"labels">>
      [] OTHER                    -> <<>>

\* field.Invalid(..., *spec.Replicas, ...) evaluates its arguments first:
\* with spec.Replicas == nil the dereference panics
validateMachineDeploymentSpec(spec) ==
    LET selectorErrs == validateSelector(spec.selector)
        strategy == validateMachineDeploymentStrategy(spec.strategy)
    IN IF ~spec.replicas.set THEN [outcome |-> "panic", errs |-> <<>>]
       ELSE IF strategy.panic THEN [outcome |-> "panic", errs |-> <<>>]
       ELSE [outcome |-> "errors",
             errs |-> selectorErrs
                      \o (IF spec.replicas.n < 0 THEN <<"replicas">> ELSE <<>>)
                      \o strategy.errs]

AdmReplicas == {[set |-> FALSE, n |-> 0]}
               \cup {[set |-> TRUE, n |-> n] : n \in (0 - 1)..MaxAdmReplicas}
AdmRollingUpdates ==
    {[set |-> FALSE, maxUnavailable |-> Nil, maxSurge |-> Nil]}
    \cup {[set |-> TRUE, maxUnavailable |-> u, maxSurge |-> g] :
            u \in IntOrStrings \cup {Nil}, g \in IntOrStrings \cup {Nil}}
AdmStrategies ==
    {[set |-> FALSE, type |-> "", rollingUpdate |-> [set |-> FALSE, maxUnavailable |-> Nil,
                                                    maxSurge |-> Nil]]}
    \cup {[set |-> TRUE, type |-> "Recreate",
           rollingUpdate |-> [set |-> FALSE, maxUnavailable |-> Nil, maxSurge |-> Nil]]}
    \cup {[set |-> TRUE, type |-> "RollingUpdate", rollingUpdate |-> ru] :
            ru \in AdmRollingUpdates}

InitAdmission ==
    /\ \E selector \in {"matching", "notMatching", "empty", "invalid"},
          replicas \in AdmReplicas, strategy \in AdmStrategies :
          adm = [spec |-> [selector |-> selector, replicas |-> replicas,
                           strategy |-> strategy],
                 outcome |-> "none", errs |-> <<>>]
    /\ StackIdle
    /\ nms = "idle" /\ cfg = "idle" /\ occ = "idle" /\ mset = "idle"
    /\ evi = "idle" /\ join = "idle" /\ cln = "idle"
    /\ nd = "idle" /\ gn = "idle" /\ st = "idle" /\ av = "idle" /\ prop = "idle"
    /\ sd = "idle" /\ upd = "idle"

\* validateMachineDeployment(md)
ValidateMachineDeployment ==
    /\ adm.outcome = "none"
    /\ \E r \in {validateMachineDeploymentSpec(adm.spec)} :
          adm' = [adm EXCEPT !.outcome = r.outcome, !.errs = r.errs]
    /\ UNCHANGED exceptAdm

NextAdmission == ValidateMachineDeployment

SpecAdmission == InitAdmission /\ [][NextAdmission]_vars

\* C39 (validation never crashes): the validation of any spec ends with a
\* list of field errors, and a spec without replicas is rejected with an
\* error on the replicas field.
ValidationNeverCrashes ==
    adm.outcome # "none" =>
        /\ adm.outcome = "errors"
        /\ ~adm.spec.replicas.set => \E k \in DOMAIN adm.errs : adm.errs[k] = "replicas"



(***************************************************************************)
(* Config variable resolver: a reference that cannot be resolved           *)
(***************************************************************************)
\* the reference the resolver reads points to an object that cannot be
\* fetched or to a key the object does not have
SourceUnresolvable(c) ==
    SourceOf(c) # "literal" /\ SourceRef(c) \in {"missing", "nokey"}

\* C40 (string fallback never fails): GetStringValueOrEnv returns no error;
\* when the reference it reads cannot be resolved the result is the value of
\* the environment variable, "" when that is unset, as for an unset field.
StringFallbackNeverFails ==
    (cfg.done /\ cfg.var.kind = "string") =>
        /\ ~cfg.err
        /\ SourceUnresolvable(cfg.var) => cfg.val = LookupEnv(cfg.env)

\* the Secret of a field with a literal value is missing and the environment
\* variable is unset: the result is "" without an error
StringFallbackNeverFailsWitness ==
    /\ cfg.done /\ cfg.var.kind = "string"
    /\ cfg.var.secretKeyRef = "missing" /\ cfg.var.value = "t"
    /\ cfg.env = "unset"
    /\ cfg.val = "" /\ ~cfg.err

====
